---- MODULE Spec2Model ----
(***************************************************************************)
(* pylinsql: the query compiler (builder.py) and the graph structuring     *)
(* engine (decompiler.py, node.py), as state machines.                     *)
(***************************************************************************)
EXTENDS Integers, Sequences, FiniteSets, TLC

(***************************************************************************)
(* ast.py: the expression tree. Every node is a record                     *)
(*   k: the class name, n: its name / operator / value, a: its children.   *)
(* Python's None is the node None.                                         *)
(***************************************************************************)
None == [k |-> "None", n |-> "", a |-> <<>>]

Constant(value) == [k |-> "Constant", n |-> value, a |-> <<>>]

ClosureRef(name) == [k |-> "ClosureRef", n |-> name, a |-> <<>>]

LocalRef(name) == [k |-> "LocalRef", n |-> name, a |-> <<>>]

GlobalRef(name) == [k |-> "GlobalRef", n |-> name, a |-> <<>>]

AttributeAccess(base, attr_name) == [k |-> "AttributeAccess", n |-> attr_name, a |-> <<base>>]

\* a[1] is the called expression (base), Tail(a) the positional arguments
FunctionCall(base, args) == [k |-> "FunctionCall", n |-> "", a |-> <<base>> \o args]

Comparison(op, left, right) == [k |-> "Comparison", n |-> op, a |-> <<left, right>>]

Negation(expr) == [k |-> "Negation", n |-> "", a |-> <<expr>>]

Conjunction(exprs) == [k |-> "Conjunction", n |-> "", a |-> exprs]

Disjunction(exprs) == [k |-> "Disjunction", n |-> "", a |-> exprs]

TupleExpression(exprs) == [k |-> "TupleExpression", n |-> "", a |-> exprs]

\* cls is the class name: UnaryPlus, UnaryMinus, BitwiseNot
UnaryExpression(cls, expr) == [k |-> cls, n |-> "", a |-> <<expr>>]

\* cls is the class name: Exponentiation, Multiplication, ..., BitwiseOr
BinaryExpression(cls, left, right) == [k |-> cls, n |-> "", a |-> <<left, right>>]

UnaryClasses == {"UnaryPlus", "UnaryMinus", "BitwiseNot"}

BinaryClasses == {"Exponentiation", "Multiplication", "Division", "Addition", "Subtraction",
                  "BitwiseLeftShift", "BitwiseRightShift", "BitwiseAnd", "BitwiseXor", "BitwiseOr"}

BooleanClasses == {"Conjunction", "Disjunction"}

\* the class attribute `precedence` of each node class
precedence(expr) ==
    CASE expr.k \in {"Constant", "ClosureRef", "LocalRef", "GlobalRef", "TupleExpression"} -> 15
      [] expr.k = "AttributeAccess" -> 14
      [] expr.k = "FunctionCall" -> 13
      [] expr.k = "Exponentiation" -> 12
      [] expr.k \in UnaryClasses -> 11
      [] expr.k \in {"Multiplication", "Division"} -> 10
      [] expr.k \in {"Addition", "Subtraction"} -> 9
      [] expr.k \in {"BitwiseLeftShift", "BitwiseRightShift"} -> 8
      [] expr.k = "BitwiseAnd" -> 7
      [] expr.k = "BitwiseXor" -> 6
      [] expr.k = "BitwiseOr" -> 5
      [] expr.k = "Comparison" -> 4
      [] expr.k = "Negation" -> 3
      [] expr.k = "Conjunction" -> 2
      [] expr.k = "Disjunction" -> 1
      [] OTHER -> 0

\* FunctionCall.get_function_name: the name of a call through a global, else None ("")
get_function_name(call) == IF call.a[1].k = "GlobalRef" THEN call.a[1].n ELSE ""

(***************************************************************************)
(* core.py: the marker functions and their number of parameters, and the   *)
(* query parameters p_1 .. p_9.                                            *)
(***************************************************************************)
_aggregate_functions == {"avg", "count", "max", "min", "sum"}

_conditional_aggregate_functions == {"avg_if", "count_if", "max_if", "min_if", "sum_if"}

_datetime_functions == {"year", "month", "day", "hour", "minute", "second"}

_join_functions == {"full_join", "inner_join", "left_join", "right_join"}

_order_functions == {"asc", "desc"}

\* len(inspect.signature(fn).parameters) of the function called `name`
signature_parameters(name) ==
    CASE name \in _join_functions -> 2
      [] name \in _conditional_aggregate_functions -> 2
      [] name = "now" -> 0
      [] OTHER -> 1

\* Dispatcher.get: the call names a function of the table with as many arguments as it has parameters
Dispatcher_get(function_mapping, call) ==
    /\ call.k = "FunctionCall"
    /\ get_function_name(call) \in function_mapping
    /\ Len(call.a) - 1 = signature_parameters(get_function_name(call))

\* is_dispatchable(now)
is_now(call) == get_function_name(call) = "now" /\ Len(call.a) = 1

Digits == <<"1", "2", "3", "4", "5", "6", "7", "8", "9">>

RECURSIVE str(_)
\* str(i) of a non-negative integer
str(i) == IF i = 0 THEN "0"
          ELSE IF i < 10 THEN Digits[i]
          ELSE str(i \div 10) \o (IF i % 10 = 0 THEN "0" ELSE Digits[i % 10])

\* the index each of the objects p_1, ..., p_9 is constructed with
_query_parameters == <<1, 2, 3, 4, 5, 6, 6, 6, 6>>

\* _QueryParameter.name of the k-th object of _query_parameters
param_name(k) == "p_" \o str(_query_parameters[k])

\* _QueryParameter.__str__ of the k-th object of _query_parameters
param_str(k) == "$" \o str(_query_parameters[k])

(***************************************************************************)
(* builder.py: _QueryValidator                                             *)
(***************************************************************************)
RECURSIVE _QueryValidator_visit(_)
\* TRUE iff _QueryValidator().visit(arg) raises TypeError: an order function is the
\* expression itself or a member of a (nested) Boolean expression; no other node is entered
_QueryValidator_visit(arg) ==
    IF arg.k \in BooleanClasses
    THEN \E i \in 1..Len(arg.a) : _QueryValidator_visit(arg.a[i])
    ELSE IF arg.k = "FunctionCall"
    THEN Dispatcher_get(_order_functions, arg)
    ELSE FALSE

(***************************************************************************)
(* builder.py: _EntityJoin, _EntityJoinCollection                          *)
(***************************************************************************)
\* the entity variable names a query may use, in the order Python compares strings
EntityNames == <<"a", "b", "c", "p">>

string_rank(name) == CHOOSE i \in 1..Len(EntityNames) : EntityNames[i] = name

builtins_min(x, y) == IF string_rank(x) <= string_rank(y) THEN x ELSE y

builtins_max(x, y) == IF string_rank(x) <= string_rank(y) THEN y ELSE x

_EntityJoin(join_type, left_entity, left_attr, right_entity, right_attr) ==
    [join_type |-> join_type, left_entity |-> left_entity, left_attr |-> left_attr,
     right_entity |-> right_entity, right_attr |-> right_attr]

\* swap that exchanges the entities and columns and keeps the join type
swap_keeping_type(j) ==
    _EntityJoin(j.join_type, j.right_entity, j.right_attr, j.left_entity, j.left_attr)

\* _EntityJoin.swap
swap(j) ==
    _EntityJoin(IF j.join_type = "left_join" THEN "right_join"
                ELSE IF j.join_type = "right_join" THEN "left_join"
                ELSE j.join_type,
                j.right_entity, j.right_attr, j.left_entity, j.left_attr)

join_key(left_entity, right_entity) ==
    <<builtins_min(left_entity, right_entity), builtins_max(left_entity, right_entity)>>

\* _EntityJoinCollection.add: entity_joins is a dict, here a sequence of [key, join]
\* in insertion order; a key already present keeps its place and takes the new join
_EntityJoinCollection_add(entity_joins, join_type, left_entity, left_attr, right_entity, right_attr) ==
    LET key == join_key(left_entity, right_entity)
        item == [key |-> key,
                 join |-> _EntityJoin(join_type, left_entity, left_attr, right_entity, right_attr)]
    IN  IF \E i \in 1..Len(entity_joins) : entity_joins[i].key = key
        THEN [i \in 1..Len(entity_joins) |->
                 IF entity_joins[i].key = key THEN item ELSE entity_joins[i]]
        ELSE Append(entity_joins, item)

(***************************************************************************)
(* builder.py: _QueryExtractor._boolean_simplify                           *)
(***************************************************************************)
RECURSIVE filter_None(_)
\* list(filter(None, results)): expression nodes are truthy, None is not
filter_None(results) ==
    IF results = <<>> THEN <<>>
    ELSE IF Head(results) = None THEN filter_None(Tail(results))
    ELSE <<Head(results)>> \o filter_None(Tail(results))

\* _boolean_simplify, given the results of visiting the members of bool_expr in order
_boolean_simplify(bool_expr, results) ==
    LET parts == filter_None(results)
    IN  IF Len(parts) > 1 THEN bool_expr
        ELSE IF Len(parts) = 1 THEN parts[1]
        ELSE None

(***************************************************************************)
(* builder.py: _JoinExtractor                                              *)
(***************************************************************************)
\* the condition of _join_expr under which it raises TypeError
_join_expr_raises(left, right) ==
    ~ (/\ left.k = "AttributeAccess"
       /\ right.k = "AttributeAccess"
       /\ left.a[1].k = "LocalRef"
       /\ right.a[1].k = "LocalRef")

RECURSIVE _JoinExtractor_visit(_, _), _JoinExtractor_members(_, _)
\* the members of a Boolean expression visited in order:
\* [results, entity_joins, err], the visit stopping at the first member that raises
_JoinExtractor_members(exprs, entity_joins) ==
    IF exprs = <<>> THEN [results |-> <<>>, entity_joins |-> entity_joins, err |-> ""]
    ELSE LET first == _JoinExtractor_visit(Head(exprs), entity_joins)
         IN  IF first.err # "" THEN [results |-> <<>>, entity_joins |-> first.entity_joins, err |-> first.err]
             ELSE LET rest == _JoinExtractor_members(Tail(exprs), first.entity_joins)
                  IN  [results |-> <<first.expr>> \o rest.results,
                       entity_joins |-> rest.entity_joins, err |-> rest.err]

\* _JoinExtractor.visit with self.entity_joins = entity_joins:
\* [expr: the value returned, entity_joins: the collection afterwards, err: the exception raised]
_JoinExtractor_visit(arg, entity_joins) ==
    IF arg.k \in BooleanClasses
    THEN LET m == _JoinExtractor_members(arg.a, entity_joins)
         IN  [expr |-> IF m.err # "" THEN None ELSE _boolean_simplify(arg, m.results),
              entity_joins |-> m.entity_joins, err |-> m.err]
    ELSE IF arg.k = "FunctionCall" /\ Dispatcher_get(_join_functions, arg)
    THEN LET left == arg.a[2]
             right == arg.a[3]
         IN  IF _join_expr_raises(left, right)
             THEN [expr |-> None, entity_joins |-> entity_joins, err |-> "TypeError"]
             ELSE [expr |-> None,
                   entity_joins |-> _EntityJoinCollection_add(entity_joins, get_function_name(arg),
                                        left.a[1].n, left.n, right.a[1].n, right.n),
                   err |-> ""]
    ELSE [expr |-> arg, entity_joins |-> entity_joins, err |-> ""]

(***************************************************************************)
(* builder.py: _ConditionExtractor                                         *)
(***************************************************************************)
\* the call is one _aggregate_functions or _conditional_aggregate_functions dispatches
is_aggregation_call(arg) ==
    Dispatcher_get(_aggregate_functions, arg) \/ Dispatcher_get(_conditional_aggregate_functions, arg)

\* the children a visit of arg visits, in the order it visits them. The base of an aggregate
\* call is a GlobalRef, which visit returns as it is: only its arguments are listed.
_ConditionExtractor_exprs(arg, aggregation) ==
    CASE arg.k \in BooleanClasses \cup UnaryClasses \cup BinaryClasses \cup {"Comparison", "AttributeAccess"} -> arg.a
      [] arg.k = "FunctionCall" ->
            IF is_aggregation_call(arg) THEN (IF aggregation THEN Tail(arg.a) ELSE <<>>)
            ELSE IF ~ aggregation THEN arg.a
            ELSE <<>>
      [] OTHER -> <<>>

\* the value visit returns for arg, given the results of visiting its children:
\* [expr: the value returned, in_aggregation_fn: the flag afterwards]
_ConditionExtractor_return(arg, local_vars, aggregation, in_aggregation_fn, m) ==
    CASE arg.k \in BooleanClasses ->
            [expr |-> _boolean_simplify(arg, m.results), in_aggregation_fn |-> m.in_aggregation_fn]
      [] arg.k \in UnaryClasses ->
            [expr |-> IF m.results[1] # None THEN UnaryExpression(arg.k, m.results[1]) ELSE None,
             in_aggregation_fn |-> m.in_aggregation_fn]
      [] arg.k \in BinaryClasses ->
            [expr |-> IF m.results[1] # None /\ m.results[2] # None
                      THEN BinaryExpression(arg.k, m.results[1], m.results[2]) ELSE None,
             in_aggregation_fn |-> m.in_aggregation_fn]
      [] arg.k = "Comparison" ->
            [expr |-> IF m.results[1] # None /\ m.results[2] # None
                      THEN Comparison(arg.n, m.results[1], m.results[2]) ELSE None,
             in_aggregation_fn |-> m.in_aggregation_fn]
      [] arg.k = "FunctionCall" ->
            IF is_aggregation_call(arg)
            THEN \* _get_aggregation_func
                 IF aggregation
                 THEN [expr |-> FunctionCall(arg.a[1], m.results), in_aggregation_fn |-> FALSE]
                 ELSE [expr |-> None, in_aggregation_fn |-> in_aggregation_fn]
            ELSE IF ~ aggregation
            THEN [expr |-> FunctionCall(m.results[1], Tail(m.results)),
                  in_aggregation_fn |-> m.in_aggregation_fn]
            ELSE [expr |-> None, in_aggregation_fn |-> in_aggregation_fn]
      [] arg.k = "AttributeAccess" ->
            [expr |-> IF m.results[1] # None THEN AttributeAccess(m.results[1], arg.n) ELSE None,
             in_aggregation_fn |-> m.in_aggregation_fn]
      [] arg.k = "LocalRef" ->
            IF /\ \E i \in 1..Len(local_vars) : local_vars[i] = arg.n
               /\ \/ aggregation /\ ~ in_aggregation_fn
                  \/ ~ aggregation /\ in_aggregation_fn
            THEN [expr |-> None, in_aggregation_fn |-> in_aggregation_fn]
            ELSE [expr |-> arg, in_aggregation_fn |-> in_aggregation_fn]
      [] OTHER -> [expr |-> arg, in_aggregation_fn |-> in_aggregation_fn]

RECURSIVE _ConditionExtractor_visit(_, _, _, _), _ConditionExtractor_list(_, _, _, _),
          _ConditionExtractor_rest(_, _, _, _)
\* [self.visit(e) for e in exprs]: [results, in_aggregation_fn afterwards]
_ConditionExtractor_list(exprs, local_vars, aggregation, in_aggregation_fn) ==
    IF exprs = <<>> THEN [results |-> <<>>, in_aggregation_fn |-> in_aggregation_fn]
    ELSE _ConditionExtractor_rest(
             _ConditionExtractor_visit(Head(exprs), local_vars, aggregation, in_aggregation_fn),
             Tail(exprs), local_vars, aggregation)

\* the list continued after its first element was visited with the result `first`
_ConditionExtractor_rest(first, exprs, local_vars, aggregation) ==
    IF first.in_aggregation_fn
    THEN [_ConditionExtractor_list(exprs, local_vars, aggregation, TRUE)
             EXCEPT !.results = <<first.expr>> \o @]
    ELSE [_ConditionExtractor_list(exprs, local_vars, aggregation, FALSE)
             EXCEPT !.results = <<first.expr>> \o @]

\* _ConditionExtractor(local_vars, aggregation).visit(arg) with self.in_aggregation_fn as given;
\* _get_aggregation_func sets the flag while the arguments of an aggregate call are visited
_ConditionExtractor_visit(arg, local_vars, aggregation, in_aggregation_fn) ==
    _ConditionExtractor_return(arg, local_vars, aggregation, in_aggregation_fn,
        _ConditionExtractor_list(_ConditionExtractor_exprs(arg, aggregation), local_vars, aggregation,
                                 in_aggregation_fn \/ (is_aggregation_call(arg) /\ aggregation)))

\* _ConditionExtractor(local_vars, aggregation).visit(expr) on a fresh extractor
condition(expr, local_vars, aggregation) ==
    _ConditionExtractor_visit(expr, local_vars, aggregation, FALSE).expr

(***************************************************************************)
(* builder.py: _QueryVisitor. SQL text is a sequence of tokens. A visit    *)
(* yields [err: the exception raised ("" if none), obj: the value is not a *)
(* str (a _QueryParameter object), toks: its text, params: the positions   *)
(* in _query_parameters of the objects added to self.parameters].          *)
(***************************************************************************)
raised(err) == [err |-> err, obj |-> FALSE, toks |-> <<>>, params |-> {}]

text(toks, params) == [err |-> "", obj |-> FALSE, toks |-> toks, params |-> params]

\* name.upper() / name.replace("_if", "").upper() of the aggregate and date-time functions
upper(name) ==
    CASE name \in {"avg", "avg_if"} -> "AVG"
      [] name \in {"count", "count_if"} -> "COUNT"
      [] name \in {"max", "max_if"} -> "MAX"
      [] name \in {"min", "min_if"} -> "MIN"
      [] name \in {"sum", "sum_if"} -> "SUM"
      [] name = "year" -> "YEAR"
      [] name = "month" -> "MONTH"
      [] name = "day" -> "DAY"
      [] name = "hour" -> "HOUR"
      [] name = "minute" -> "MINUTE"
      [] name = "second" -> "SECOND"
      [] OTHER -> name

RECURSIVE str_join(_, _)
\* sep.join(parts) of parts that are all str
str_join(sep, parts) ==
    IF parts = <<>> THEN <<>>
    ELSE IF Len(parts) = 1 THEN parts[1].toks
    ELSE parts[1].toks \o <<sep>> \o str_join(sep, Tail(parts))

\* sep.join(parts): TypeError when an item is not a str
join(sep, parts, params) ==
    IF \E i \in 1..Len(parts) : parts[i].obj THEN raised("TypeError")
    ELSE text(str_join(sep, parts), params)

binary_ops(op) ==
    CASE op = "==" -> "="
      [] op = "!=" -> "<>"
      [] op \in {"<", "<=", ">=", ">"} -> op
      [] OTHER -> ""

\* the text of each binary and unary operator class in _QueryVisitor
sql_op(cls) ==
    CASE cls = "Exponentiation" -> "^"
      [] cls = "Multiplication" -> "*"
      [] cls = "Division" -> "/"
      [] cls \in {"Addition", "UnaryPlus"} -> "+"
      [] cls \in {"Subtraction", "UnaryMinus"} -> "-"
      [] cls = "BitwiseNot" -> "~"
      [] cls = "BitwiseAnd" -> "&"
      [] cls = "BitwiseXor" -> "#"
      [] cls = "BitwiseOr" -> "|"
      [] cls = "Negation" -> "NOT"
      [] OTHER -> ""

\* the position in _query_parameters of the first object whose name is `name`, 0 if none
find_parameter(name) ==
    IF \E k \in 1..Len(_query_parameters) : param_name(k) = name
    THEN CHOOSE k \in 1..Len(_query_parameters) :
            /\ param_name(k) = name
            /\ \A j \in 1..(k - 1) : param_name(j) # name
    ELSE 0

RECURSIVE truthy(_)
\* list(filter(None, parts)): a part that is None is dropped
truthy(parts) ==
    IF parts = <<>> THEN <<>>
    ELSE IF Head(parts).obj /\ Head(parts).toks = <<"None">> THEN truthy(Tail(parts))
    ELSE <<Head(parts)>> \o truthy(Tail(parts))

\* the children _visit visits, in the order it visits them
_QueryVisitor_exprs(arg) ==
    CASE arg.k \in BooleanClasses \cup UnaryClasses \cup {"Negation", "AttributeAccess", "TupleExpression"} -> arg.a
      [] arg.k \in BinaryClasses \ {"BitwiseLeftShift", "BitwiseRightShift"} -> arg.a
      [] arg.k = "Comparison" ->
            IF arg.a[2].k = "Constant" /\ arg.a[2].n = "None" THEN <<arg.a[1]>> ELSE arg.a
      [] arg.k = "FunctionCall" ->
            IF \/ Dispatcher_get(_aggregate_functions, arg)
               \/ Dispatcher_get(_conditional_aggregate_functions, arg)
               \/ Dispatcher_get(_datetime_functions, arg)
            THEN Tail(arg.a)
            ELSE <<>>
      [] OTHER -> <<>>

\* self.stack[-1].precedence while the children of arg are visited
_QueryVisitor_stack(arg) ==
    IF \/ arg.k = "TupleExpression"
       \/ arg.k = "FunctionCall" /\ ~ Dispatcher_get(_aggregate_functions, arg)
                                 /\ Dispatcher_get(_conditional_aggregate_functions, arg)
    THEN 0
    ELSE precedence(arg)

\* _QueryVisitor._visit: the text of a node, m the values of its children:
\* [err, parts: the values in order, params]
_QueryVisitor__visit(arg, m, closure_vars) ==
    IF m.err # "" THEN raised(m.err)
    ELSE
    CASE arg.k \in BooleanClasses ->
            \* _sql_where_expr
            IF Len(truthy(m.parts)) > 1
            THEN join(IF arg.k = "Conjunction" THEN "AND" ELSE "OR", truthy(m.parts), m.params)
            ELSE IF Len(truthy(m.parts)) = 1 THEN [truthy(m.parts)[1] EXCEPT !.params = m.params]
            ELSE [err |-> "", obj |-> TRUE, toks |-> <<"None">>, params |-> m.params]
      [] arg.k \in UnaryClasses \cup {"Negation"} ->
            \* _sql_unary_expr
            text(<<sql_op(arg.k)>> \o m.parts[1].toks, m.params)
      [] arg.k \in BinaryClasses \ {"BitwiseLeftShift", "BitwiseRightShift"} ->
            \* _sql_binary_expr
            text(m.parts[1].toks \o <<sql_op(arg.k)>> \o m.parts[2].toks, m.params)
      [] arg.k = "Comparison" ->
            IF arg.a[2].k = "Constant" /\ arg.a[2].n = "None"
            THEN IF arg.n = "is" THEN text(m.parts[1].toks \o <<"IS", "NULL">>, m.params)
                 ELSE IF arg.n = "is not" THEN text(m.parts[1].toks \o <<"IS", "NOT", "NULL">>, m.params)
                 ELSE raised("TypeError")
            ELSE IF arg.n = "in"
            THEN text(m.parts[1].toks \o <<"IN">> \o m.parts[2].toks, m.params)
            ELSE IF arg.n = "not in"
            THEN text(m.parts[1].toks \o <<"NOT", "IN">> \o m.parts[2].toks, m.params)
            ELSE IF binary_ops(arg.n) # ""
            THEN text(m.parts[1].toks \o <<binary_ops(arg.n)>> \o m.parts[2].toks, m.params)
            ELSE raised("TypeError")
      [] arg.k = "FunctionCall" ->
            IF Dispatcher_get(_aggregate_functions, arg)
            THEN IF join(",", m.parts, m.params).err # "" THEN join(",", m.parts, m.params)
                 ELSE text(<<upper(arg.a[1].n), "(">> \o join(",", m.parts, m.params).toks \o <<")">>,
                           m.params)
            ELSE IF Dispatcher_get(_conditional_aggregate_functions, arg)
            THEN text(<<upper(arg.a[1].n), "(">> \o m.parts[1].toks
                      \o <<")", "FILTER", "(", "WHERE">> \o m.parts[2].toks \o <<")">>, m.params)
            ELSE IF Dispatcher_get(_datetime_functions, arg)
            THEN text(<<"EXTRACT", "(", upper(arg.a[1].n), "FROM">> \o m.parts[1].toks \o <<")">>,
                      m.params)
            ELSE IF is_now(arg) THEN text(<<"CURRENT_TIMESTAMP">>, {})
            ELSE raised("ValueError")
      [] arg.k = "AttributeAccess" -> text(m.parts[1].toks \o <<".", arg.n>>, m.params)
      [] arg.k = "ClosureRef" ->
            IF arg.n \notin DOMAIN closure_vars THEN raised("KeyError")
            ELSE IF closure_vars[arg.n].query THEN text(<<"(">> \o closure_vars[arg.n].sql \o <<")">>, {})
            ELSE text(closure_vars[arg.n].sql, {})
      [] arg.k = "GlobalRef" ->
            IF find_parameter(arg.n) # 0
            THEN [err |-> "", obj |-> TRUE, toks |-> <<param_str(find_parameter(arg.n))>>,
                  params |-> {find_parameter(arg.n)}]
            ELSE text(<<arg.n>>, {})
      [] arg.k = "LocalRef" -> text(<<arg.n>>, {})
      [] arg.k = "TupleExpression" -> join(",", m.parts, m.params)
      [] arg.k = "Constant" -> text(<<arg.n>>, {})
      [] OTHER -> raised("NotImplementedError")

\* return f"({expr})" if arg.precedence < self.stack[-1].precedence else expr
_QueryVisitor_parenthesise(arg, parent, expr) ==
    IF expr.err # "" THEN expr
    ELSE IF precedence(arg) < parent
    THEN text(<<"(">> \o expr.toks \o <<")">>, expr.params)
    ELSE expr

RECURSIVE _QueryVisitor_visit(_, _, _), _QueryVisitor_list(_, _, _), _QueryVisitor_rest(_, _, _, _)
\* [self.visit(e) for e in exprs] with stack[-1].precedence = parent:
\* [err, parts: the values in order, params]; the first exception ends the list
_QueryVisitor_list(exprs, parent, closure_vars) ==
    IF exprs = <<>> THEN [err |-> "", parts |-> <<>>, params |-> {}]
    ELSE _QueryVisitor_rest(_QueryVisitor_visit(Head(exprs), parent, closure_vars),
                            Tail(exprs), parent, closure_vars)

\* the list continued after its first element was visited with the value `first`
_QueryVisitor_rest(first, exprs, parent, closure_vars) ==
    IF first.err # "" THEN [err |-> first.err, parts |-> <<>>, params |-> first.params]
    ELSE [_QueryVisitor_list(exprs, parent, closure_vars)
             EXCEPT !.parts = <<first>> \o @, !.params = first.params \cup @]

\* _QueryVisitor.visit with stack[-1].precedence = parent
_QueryVisitor_visit(arg, parent, closure_vars) ==
    _QueryVisitor_parenthesise(arg, parent,
        _QueryVisitor__visit(arg,
            _QueryVisitor_list(_QueryVisitor_exprs(arg), _QueryVisitor_stack(arg), closure_vars),
            closure_vars))

(***************************************************************************)
(* builder.py: _SelectExtractor                                            *)
(***************************************************************************)
\* _SelectExtractor._is_aggregate
_is_aggregate(expr, local_vars) == condition(expr, local_vars, TRUE) # None

\* a fresh _SelectExtractor: select, group_by, order_by hold visited items [obj, toks]
_SelectExtractor == [err |-> "", select |-> <<>>, group_by |-> <<>>, order_by |-> <<>>,
                     has_aggregate |-> FALSE, params |-> {}]

\* the body of _visit_expr, item the value of query_visitor.visit(expr) and
\* agg the value of _is_aggregate(expr): [sv: the extractor afterwards, item]
_visit_expr_item(sv, item, agg) ==
    IF item.err # "" THEN [sv |-> [sv EXCEPT !.err = item.err], item |-> item]
    ELSE [sv |-> [sv EXCEPT !.has_aggregate = sv.has_aggregate \/ agg,
                            !.group_by = IF agg THEN sv.group_by ELSE Append(sv.group_by, item),
                            !.select = Append(sv.select, item),
                            !.params = sv.params \cup item.params],
          item |-> item]

\* _SelectExtractor._visit_expr on the extractor sv
_visit_expr(sv, expr, local_vars, closure_vars) ==
    _visit_expr_item(sv, _QueryVisitor_visit(expr, 0, closure_vars), _is_aggregate(expr, local_vars))

\* self.order_by.append(f"{item} {order}") after _visit_expr returned r
_order_by_append(r, call) ==
    IF r.sv.err # "" THEN r.sv
    ELSE [r.sv EXCEPT !.order_by =
             Append(@, text(r.item.toks \o <<IF get_function_name(call) = "asc" THEN "ASC" ELSE "DESC">>, {}))]

\* _SelectExtractor._visit of an expression that is no tuple
_SelectExtractor_single(sv, expr, r) ==
    IF expr.k = "LocalRef" THEN [sv EXCEPT !.select = Append(sv.select, text(<<"*">>, {}))]
    ELSE IF Dispatcher_get(_order_functions, expr) THEN _order_by_append(r, expr)
    ELSE r.sv

RECURSIVE _SelectExtractor__visit(_, _, _, _), _SelectExtractor_tuple(_, _, _, _)
\* for expr in tup.exprs: self._visit(expr)
_SelectExtractor_tuple(sv, exprs, local_vars, closure_vars) ==
    IF exprs = <<>> \/ sv.err # "" THEN sv
    ELSE _SelectExtractor_tuple(_SelectExtractor__visit(sv, Head(exprs), local_vars, closure_vars),
                                Tail(exprs), local_vars, closure_vars)

\* _SelectExtractor._visit on the extractor sv: the extractor afterwards
_SelectExtractor__visit(sv, expr, local_vars, closure_vars) ==
    IF expr.k = "TupleExpression" THEN _SelectExtractor_tuple(sv, expr.a, local_vars, closure_vars)
    ELSE _SelectExtractor_single(sv, expr,
             _visit_expr(sv, IF Dispatcher_get(_order_functions, expr) THEN expr.a[2] ELSE expr,
                         local_vars, closure_vars))

(***************************************************************************)
(* The state of one call of QueryBuilder.select or                         *)
(* QueryBuilder.insert_or_select.                                          *)
(***************************************************************************)
VARIABLES
    qba,            \* QueryBuilderArgs: [types, local_vars, closure_vars, cond_expr, yield_expr]
    insert_obj,     \* the object to insert: [type, fields: <<[name, default]>>]; None for select
    pc,             \* the statement the call has reached; "done" and "failed" end it
    cond_expr,      \* the predicate after join extraction
    entity_joins,   \* join_simplifier.entity_joins
    remaining_entities, joined_entities, sql_join_group, sql_join,
    where_expr, sql_where, having_expr, sql_having,
    select_visitor, \* the _SelectExtractor after the projection is visited
    parameters,     \* query_visitor.parameters
    offset,         \* the first insert placeholder
    error,          \* the exception that ended the call, "" if none
    sql             \* the text returned

\* The state of one call of CodeExpressionAnalyzer.get_expression.
VARIABLES
    instructions,   \* the last instruction of each basic block: [opname, arg]
    node,           \* the AbstractNode objects: [expr, inverted, on_true, on_false, origins]
    nodes,          \* the list `nodes` of _get_condition
    cond_nodes,     \* the list `cond_nodes` of _get_condition
    true_node, false_node, root,
    position,       \* the position the loop over cond_nodes has reached
    conditional_expr \* CodeExpression.conditional_expr

graph_vars == <<instructions, node, nodes, cond_nodes, true_node, false_node, root, position,
                conditional_expr>>

builder_vars == <<qba, insert_obj, cond_expr, entity_joins, remaining_entities, joined_entities,
                  sql_join_group, sql_join, where_expr, sql_where, having_expr, sql_having,
                  select_visitor, parameters, offset, sql>>

\* The state of query.py: the generator objects made and the cache of _analyze_expression.
VARIABLES
    generators,     \* the generator objects: the source expression of each
    cache,          \* the entries of functools.lru_cache: [key, value]
    hits, misses,   \* the counters of functools.lru_cache
    generator,      \* the argument of the call of select in progress, 0 if none
    returned        \* what each finished call of select gave: [generator, source, hit, sql, error]

cache_vars == <<generators, cache, hits, misses, generator, returned>>

\* The state of async_database.py: one asynchronous execution context.
VARIABLES
    _shared_pool,   \* the dictionary held by the context variable: params -> pool, 0 if absent
    pools,          \* the SharedDatabasePool objects constructed: [params, released, deleted]
    coroutines      \* the calls of shared_pool: [at, params, pool]

pool_vars == <<_shared_pool, pools, coroutines>>

\* The state of ast.py: one node and what the calls of negate() made in a row returned.
VARIABLES
    operand,        \* the node negate() is first called on
    negations       \* the value of each call of negate(), each on the value of the one before

ast_vars == <<operand, negations>>

\* The state of one call of _get_basic_blocks or of _Disassembler.process_block.
VARIABLES
    code,           \* the argument `instructions`: [opname, arg]
    blocks, block,  \* the list and the _BasicBlockSpan being filled: [start_offset, start_index, end_index]
    prev_index,     \* the place the loop over the instructions has reached
    lists,          \* the list objects that hold stacks, a stack being named by its place here
    stack,          \* the argument `stack`
    self_stack,     \* self.stack
    _on_true, _on_false, _jump_expr, _yield_expr, _return_expr,
    block_expr      \* the _BasicBlockExpr returned

block_vars == <<code, blocks, block, prev_index, lists, stack, self_stack,
                _on_true, _on_false, _jump_expr, _yield_expr, _return_expr, block_expr>>

\* The state of async_database.py: one use of a pooled connection with a transaction.
VARIABLES
    free,           \* the connections the asyncpg pool holds
    conn,           \* the connection acquired, 0 if none
    calls,          \* the calls made to asyncpg so far, in order
    body,           \* what the body of the `async with` block does
    failing,        \* the asyncpg calls that raise
    exc             \* the exception that travels up the stack, "" if none

tx_vars == <<free, conn, calls, body, failing, exc>>

\* The state of node.py: the calls of the methods of AbstractNode.
VARIABLES
    called,         \* the number of calls made
    pending         \* the call to be made: [name, self, node]

call_vars == <<called, pending>>

vars == <<pc, error, builder_vars, graph_vars, cache_vars, pool_vars, ast_vars, block_vars, tx_vars, call_vars>>

\* no generator expression is compiled
no_cache ==
    /\ generators = <<>>
    /\ cache = <<>>
    /\ hits = 0
    /\ misses = 0
    /\ generator = 0
    /\ returned = <<>>

\* no connection pool is used
no_pool ==
    /\ _shared_pool = <<>>
    /\ pools = <<>>
    /\ coroutines = <<>>

\* no node is negated
no_ast ==
    /\ operand = None
    /\ negations = <<>>

\* no instruction list is processed
no_block ==
    /\ code = <<>>
    /\ blocks = <<>>
    /\ block = None
    /\ prev_index = 0
    /\ lists = <<>>
    /\ stack = 0
    /\ self_stack = 0
    /\ _on_true = 0
    /\ _on_false = 0
    /\ _jump_expr = None
    /\ _yield_expr = None
    /\ _return_expr = None
    /\ block_expr = None

\* no method of AbstractNode is called from outside
NoCall == [name |-> "", self |-> 0, node |-> 0]

no_call ==
    /\ called = 0
    /\ pending = NoCall

\* no connection is in use
no_tx ==
    /\ free = {}
    /\ conn = 0
    /\ calls = <<>>
    /\ body = ""
    /\ failing = {}
    /\ exc = ""

\* no code object is analysed
no_graph ==
    /\ instructions = <<>>
    /\ node = <<>>
    /\ nodes = <<>>
    /\ cond_nodes = <<>>
    /\ true_node = 0
    /\ false_node = 0
    /\ root = 0
    /\ position = 0
    /\ conditional_expr = [k |-> "None", n |-> "", a |-> <<>>]

\* the text of a clause not built (Python None)
NoText == [err |-> "", obj |-> TRUE, toks |-> <<"None">>, params |-> {}]

\* the exception err ends the call: nothing is returned
fail(err) ==
    /\ pc' = "failed"
    /\ error' = err
    /\ sql' = <<>>

\* the state at the call of select or insert_or_select
call(args, obj, first) ==
    /\ qba = args
    /\ insert_obj = obj
    /\ pc = first
    /\ cond_expr = None
    /\ entity_joins = <<>>
    /\ remaining_entities = <<>>
    /\ joined_entities = {}
    /\ sql_join_group = <<>>
    /\ sql_join = <<>>
    /\ where_expr = None
    /\ sql_where = NoText
    /\ having_expr = None
    /\ sql_having = NoText
    /\ select_visitor = _SelectExtractor
    /\ parameters = {}
    /\ offset = 0
    /\ error = ""
    /\ sql = <<>>
    /\ no_graph
    /\ no_cache
    /\ no_pool
    /\ no_ast
    /\ no_block
    /\ no_tx
    /\ no_call

\* no query is built
no_query ==
    /\ qba = None
    /\ insert_obj = None
    /\ cond_expr = None
    /\ entity_joins = <<>>
    /\ remaining_entities = <<>>
    /\ joined_entities = {}
    /\ sql_join_group = <<>>
    /\ sql_join = <<>>
    /\ where_expr = None
    /\ sql_where = NoText
    /\ having_expr = None
    /\ sql_having = NoText
    /\ select_visitor = _SelectExtractor
    /\ parameters = {}
    /\ offset = 0
    /\ sql = <<>>

(***************************************************************************)
(* builder.py: QueryBuilder.select, one action per statement group         *)
(***************************************************************************)
\* _QueryValidator().visit(qba.cond_expr)
select_validate ==
    /\ pc = "select_validate"
    /\ IF _QueryValidator_visit(qba.cond_expr)
       THEN fail("TypeError") /\ UNCHANGED <<cond_expr, entity_joins, remaining_entities>>
       ELSE /\ pc' = "select_join"
            /\ UNCHANGED <<cond_expr, entity_joins, remaining_entities, error, sql>>
    /\ UNCHANGED <<graph_vars, cache_vars, pool_vars, ast_vars, block_vars, tx_vars, call_vars>>
    /\ UNCHANGED <<qba, insert_obj, joined_entities, sql_join_group, sql_join, where_expr, sql_where,
                   having_expr, sql_having, select_visitor, parameters, offset>>

\* extract JOIN clause from "if" part of generator expression
select_join ==
    /\ pc = "select_join"
    /\ LET r == _JoinExtractor_visit(qba.cond_expr, <<>>)
       IN  IF r.err # ""
           THEN fail(r.err) /\ UNCHANGED <<cond_expr, entity_joins, remaining_entities>>
           ELSE /\ cond_expr' = r.expr
                /\ entity_joins' = r.entity_joins
                /\ remaining_entities' = qba.local_vars
                /\ pc' = "select_from"
                /\ UNCHANGED <<error, sql>>
    /\ UNCHANGED <<graph_vars, cache_vars, pool_vars, ast_vars, block_vars, tx_vars, call_vars>>
    /\ UNCHANGED <<qba, insert_obj, joined_entities, sql_join_group, sql_join, where_expr, sql_where,
                   having_expr, sql_having, select_visitor, parameters, offset>>

\* entity_aliases[var]
entity_alias(var) ==
    LET i == CHOOSE i \in 1..Len(qba.local_vars) : qba.local_vars[i] = var
    IN  <<qba.types[i], "AS", var>>

\* as_join that names the left entity as the joined table
as_join_left(j) ==
    <<CASE j.join_type = "inner_join" -> "INNER"
        [] j.join_type = "left_join" -> "LEFT"
        [] j.join_type = "right_join" -> "RIGHT"
        [] j.join_type = "full_join" -> "FULL",
      "JOIN">> \o entity_alias(j.left_entity)
    \o <<"ON", j.left_entity, ".", j.left_attr, "=", j.right_entity, ".", j.right_attr>>

\* _EntityJoin.as_join
as_join(j) ==
    <<CASE j.join_type = "inner_join" -> "INNER"
        [] j.join_type = "left_join" -> "LEFT"
        [] j.join_type = "right_join" -> "RIGHT"
        [] j.join_type = "full_join" -> "FULL",
      "JOIN">> \o entity_alias(j.right_entity)
    \o <<"ON", j.left_entity, ".", j.left_attr, "=", j.right_entity, ".", j.right_attr>>

\* the place in entity_joins of the join between two entities, 0 if none
find_join(joins, left, right) ==
    IF \E i \in 1..Len(joins) : joins[i].key = join_key(left, right)
    THEN CHOOSE i \in 1..Len(joins) : joins[i].key = join_key(left, right)
    ELSE 0

\* _EntityJoinCollection.pop: the join as seen from left
pop(joins, left, right) ==
    LET j == joins[find_join(joins, left, right)].join
    IN  IF left # j.left_entity THEN swap(j) ELSE j

\* the first entity of remaining that has a recorded join with left, "" if none
first_match(joins, left, remaining) ==
    IF \E i \in 1..Len(remaining) : find_join(joins, left, remaining[i]) # 0
    THEN remaining[CHOOSE i \in 1..Len(remaining) :
                      /\ find_join(joins, left, remaining[i]) # 0
                      /\ \A k \in 1..(i - 1) : find_join(joins, left, remaining[k]) = 0]
    ELSE ""

\* the sequence s without its first element equal to x (list.remove)
remove(s, x) ==
    LET i == CHOOSE i \in 1..Len(s) : s[i] = x /\ \A k \in 1..(i - 1) : s[k] # x
    IN  SubSeq(s, 1, i - 1) \o SubSeq(s, i + 1, Len(s))

\* while remaining_entities: first = remaining_entities.pop(0) ...: a new FROM item is begun
select_from_first ==
    /\ pc = "select_from"
    /\ remaining_entities # <<>>
    /\ joined_entities' = {Head(remaining_entities)}
    /\ sql_join_group' = entity_alias(Head(remaining_entities))
    /\ remaining_entities' = Tail(remaining_entities)
    /\ pc' = "select_match"
    /\ UNCHANGED <<graph_vars, cache_vars, pool_vars, ast_vars, block_vars, tx_vars, call_vars>>
    /\ UNCHANGED <<qba, insert_obj, cond_expr, entity_joins, sql_join, where_expr, sql_where,
                   having_expr, sql_having, select_visitor, parameters, offset, error, sql>>

\* one turn of "while True": _match_entities walks the set joined_entities in an order
\* the set decides, and the list remaining_entities in order; the first join found is popped
select_from_match ==
    /\ pc = "select_match"
    /\ \E left \in joined_entities :
          /\ first_match(entity_joins, left, remaining_entities) # ""
          /\ LET right == first_match(entity_joins, left, remaining_entities)
                 entity_join == pop(entity_joins, left, right)
                 at == find_join(entity_joins, left, right)
             IN  /\ entity_joins' = SubSeq(entity_joins, 1, at - 1)
                                      \o SubSeq(entity_joins, at + 1, Len(entity_joins))
                 /\ joined_entities' = joined_entities \cup {entity_join.right_entity}
                 /\ remaining_entities' = remove(remaining_entities, entity_join.right_entity)
                 /\ sql_join_group' = sql_join_group \o as_join(entity_join)
    /\ UNCHANGED <<graph_vars, cache_vars, pool_vars, ast_vars, block_vars, tx_vars, call_vars>>
    /\ UNCHANGED <<qba, insert_obj, pc, cond_expr, sql_join, where_expr, sql_where,
                   having_expr, sql_having, select_visitor, parameters, offset, error, sql>>

\* if not entity_join: break; sql_join.append(" ".join(sql_join_group))
select_from_break ==
    /\ pc = "select_match"
    /\ \A left \in joined_entities : first_match(entity_joins, left, remaining_entities) = ""
    /\ sql_join' = Append(sql_join, sql_join_group)
    /\ pc' = "select_from"
    /\ UNCHANGED <<graph_vars, cache_vars, pool_vars, ast_vars, block_vars, tx_vars, call_vars>>
    /\ UNCHANGED <<qba, insert_obj, cond_expr, entity_joins, remaining_entities, joined_entities,
                   sql_join_group, where_expr, sql_where, having_expr, sql_having, select_visitor,
                   parameters, offset, error, sql>>

\* bool(x) of a clause text: None and the empty string are false
truth(x) == ~ (x.obj /\ x.toks = <<"None">>) /\ (x.obj \/ x.toks # <<>>)

\* construct WHERE expression
select_where ==
    /\ pc = "select_from"
    /\ remaining_entities = <<>>
    /\ LET e == condition(cond_expr, qba.local_vars, FALSE)
           t == IF e # None THEN _QueryVisitor_visit(e, 0, qba.closure_vars) ELSE NoText
       IN  IF t.err # ""
           THEN fail(t.err) /\ UNCHANGED <<where_expr, sql_where, parameters>>
           ELSE /\ where_expr' = e
                /\ sql_where' = t
                /\ parameters' = parameters \cup t.params
                /\ pc' = "select_having"
                /\ UNCHANGED <<error, sql>>
    /\ UNCHANGED <<graph_vars, cache_vars, pool_vars, ast_vars, block_vars, tx_vars, call_vars>>
    /\ UNCHANGED <<qba, insert_obj, cond_expr, entity_joins, remaining_entities, joined_entities,
                   sql_join_group, sql_join, having_expr, sql_having, select_visitor, offset>>

\* construct HAVING expression
select_having ==
    /\ pc = "select_having"
    /\ LET e == condition(cond_expr, qba.local_vars, TRUE)
           t == IF e # None THEN _QueryVisitor_visit(e, 0, qba.closure_vars) ELSE NoText
       IN  IF t.err # ""
           THEN fail(t.err) /\ UNCHANGED <<having_expr, sql_having, parameters>>
           ELSE /\ having_expr' = e
                /\ sql_having' = t
                /\ parameters' = parameters \cup t.params
                /\ pc' = "select_project"
                /\ UNCHANGED <<error, sql>>
    /\ UNCHANGED <<graph_vars, cache_vars, pool_vars, ast_vars, block_vars, tx_vars, call_vars>>
    /\ UNCHANGED <<qba, insert_obj, cond_expr, entity_joins, remaining_entities, joined_entities,
                   sql_join_group, sql_join, where_expr, sql_where, select_visitor, offset>>

\* construct SELECT expression: select_visitor.visit(qba.yield_expr)
select_project ==
    /\ pc = "select_project"
    /\ LET sv == _SelectExtractor__visit(_SelectExtractor, qba.yield_expr, qba.local_vars, qba.closure_vars)
       IN  IF sv.err # ""
           THEN fail(sv.err) /\ UNCHANGED <<select_visitor, parameters>>
           ELSE /\ select_visitor' = sv
                /\ parameters' = parameters \cup sv.params
                /\ pc' = "select_emit"
                /\ UNCHANGED <<error, sql>>
    /\ UNCHANGED <<graph_vars, cache_vars, pool_vars, ast_vars, block_vars, tx_vars, call_vars>>
    /\ UNCHANGED <<qba, insert_obj, cond_expr, entity_joins, remaining_entities, joined_entities,
                   sql_join_group, sql_join, where_expr, sql_where, having_expr, sql_having, offset>>

\* sql_group = select_visitor.group_by if select_visitor.has_aggregate else None
sql_group(sv) == IF sv.has_aggregate THEN sv.group_by ELSE <<>>

RECURSIVE join_groups(_)
\* ", ".join(sql_join) of the FROM items, each " ".join(sql_join_group)
join_groups(groups) ==
    IF groups = <<>> THEN <<>>
    ELSE IF Len(groups) = 1 THEN groups[1]
    ELSE groups[1] \o <<",">> \o join_groups(Tail(groups))

\* the statement select assembles from its parts, TypeError when str.join meets a non-str
select_text(sv, from, where, having) ==
    LET items == join(",", sv.select, {})
        group == join(",", sql_group(sv), {})
        order == join(",", sv.order_by, {})
    IN  IF items.err # "" THEN items
        ELSE IF sql_group(sv) # <<>> /\ group.err # "" THEN group
        ELSE IF (truth(where) /\ where.obj) \/ (truth(having) /\ having.obj) THEN raised("TypeError")
        ELSE text(<<"SELECT">> \o items.toks
                  \o (IF from # <<>> THEN <<"FROM">> \o join_groups(from) ELSE <<>>)
                  \o (IF truth(where) THEN <<"WHERE">> \o where.toks ELSE <<>>)
                  \o (IF sql_group(sv) # <<>> THEN <<"GROUP BY">> \o group.toks ELSE <<>>)
                  \o (IF truth(having) THEN <<"HAVING">> \o having.toks ELSE <<>>)
                  \o (IF sv.order_by # <<>> THEN <<"ORDER BY">> \o order.toks ELSE <<>>), {})

\* sql_parts = ["SELECT"] ... return " ".join(sql_parts)
select_emit ==
    /\ pc = "select_emit"
    /\ LET t == select_text(select_visitor, sql_join, sql_where, sql_having)
       IN  IF t.err # "" THEN fail(t.err)
           ELSE /\ sql' = t.toks
                /\ pc' = "done"
                /\ UNCHANGED error
    /\ UNCHANGED <<graph_vars, cache_vars, pool_vars, ast_vars, block_vars, tx_vars, call_vars>>
    /\ UNCHANGED <<qba, insert_obj, cond_expr, entity_joins, remaining_entities, joined_entities,
                   sql_join_group, sql_join, where_expr, sql_where, having_expr, sql_having,
                   select_visitor, parameters, offset>>

(***************************************************************************)
(* builder.py: QueryBuilder.insert_or_select, one action per statement     *)
(* group                                                                   *)
(***************************************************************************)
DataclassError == "TypeError: must be a dataclass instance"

JoinError == "ValueError: no join conditions are allowed in an insert or select query"

SingleEntityError == "ValueError: a single target entity is required for an insert or select query"

WrongTypeError == "TypeError: object to insert has wrong type"

AggregationError == "ValueError: no aggregation functions are allowed in an insert or select query"

\* if not is_dataclass_instance(insert_obj): raise TypeError; _QueryValidator().visit(qba.cond_expr)
insert_validate ==
    /\ pc = "insert_validate"
    /\ IF ~ insert_obj.dataclass THEN fail(DataclassError)
       ELSE IF _QueryValidator_visit(qba.cond_expr) THEN fail("TypeError")
       ELSE pc' = "insert_join" /\ UNCHANGED <<error, sql>>
    /\ UNCHANGED <<graph_vars, cache_vars, pool_vars, ast_vars, block_vars, tx_vars, call_vars>>
    /\ UNCHANGED <<qba, insert_obj, cond_expr, entity_joins, remaining_entities, joined_entities,
                   sql_join_group, sql_join, where_expr, sql_where, having_expr, sql_having,
                   select_visitor, parameters, offset>>

\* the step of insert_join, r the value of join_simplifier.visit(qba.cond_expr)
insert_join_check(r) ==
    IF r.err # "" THEN fail(r.err) /\ UNCHANGED cond_expr
    ELSE IF r.entity_joins # <<>> THEN fail(JoinError) /\ UNCHANGED cond_expr
    ELSE /\ cond_expr' = r.expr
         /\ pc' = "insert_from"
         /\ UNCHANGED <<error, sql>>

\* check JOIN clause in "if" part of generator expression
insert_join ==
    /\ pc = "insert_join"
    /\ insert_join_check(_JoinExtractor_visit(qba.cond_expr, <<>>))
    /\ UNCHANGED <<graph_vars, cache_vars, pool_vars, ast_vars, block_vars, tx_vars, call_vars>>
    /\ UNCHANGED <<qba, insert_obj, entity_joins, remaining_entities, joined_entities,
                   sql_join_group, sql_join, where_expr, sql_where, having_expr, sql_having,
                   select_visitor, parameters, offset>>

\* construct FROM expression: sql_from is kept in sql_join
insert_from ==
    /\ pc = "insert_from"
    /\ IF Len(qba.types) # 1 THEN fail(SingleEntityError) /\ UNCHANGED sql_join
       ELSE IF insert_obj.type # qba.types[1] THEN fail(WrongTypeError) /\ UNCHANGED sql_join
       ELSE /\ sql_join' = <<entity_alias(qba.local_vars[1])>>
            /\ pc' = "insert_where"
            /\ UNCHANGED <<error, sql>>
    /\ UNCHANGED <<graph_vars, cache_vars, pool_vars, ast_vars, block_vars, tx_vars, call_vars>>
    /\ UNCHANGED <<qba, insert_obj, cond_expr, entity_joins, remaining_entities, joined_entities,
                   sql_join_group, where_expr, sql_where, having_expr, sql_having,
                   select_visitor, parameters, offset>>

\* the step of insert_where, e the WHERE expression and t its text
insert_where_text(e, t) ==
    IF t.err # "" THEN fail(t.err) /\ UNCHANGED <<where_expr, sql_where, parameters>>
    ELSE /\ where_expr' = e
         /\ sql_where' = t
         /\ parameters' = parameters \cup t.params
         /\ pc' = "insert_having"
         /\ UNCHANGED <<error, sql>>

\* the step of insert_where, e the WHERE expression
insert_where_expr(e) ==
    insert_where_text(e, IF e # None THEN _QueryVisitor_visit(e, 0, qba.closure_vars) ELSE NoText)

\* construct WHERE expression
insert_where ==
    /\ pc = "insert_where"
    /\ insert_where_expr(condition(cond_expr, qba.local_vars, FALSE))
    /\ UNCHANGED <<graph_vars, cache_vars, pool_vars, ast_vars, block_vars, tx_vars, call_vars>>
    /\ UNCHANGED <<qba, insert_obj, cond_expr, entity_joins, remaining_entities, joined_entities,
                   sql_join_group, sql_join, having_expr, sql_having, select_visitor, offset>>

\* check HAVING expression
insert_having ==
    /\ pc = "insert_having"
    /\ IF condition(cond_expr, qba.local_vars, TRUE) # None THEN fail(AggregationError)
       ELSE pc' = "insert_project" /\ UNCHANGED <<error, sql>>
    /\ UNCHANGED <<graph_vars, cache_vars, pool_vars, ast_vars, block_vars, tx_vars, call_vars>>
    /\ UNCHANGED <<qba, insert_obj, cond_expr, entity_joins, remaining_entities, joined_entities,
                   sql_join_group, sql_join, where_expr, sql_where, having_expr, sql_having,
                   select_visitor, parameters, offset>>

\* the step of insert_project, sv the _SelectExtractor after the visit
insert_project_check(sv) ==
    IF sv.err # "" THEN fail(sv.err) /\ UNCHANGED <<select_visitor, parameters>>
    ELSE IF sv.has_aggregate THEN fail(AggregationError) /\ UNCHANGED <<select_visitor, parameters>>
    ELSE /\ select_visitor' = sv
         /\ parameters' = parameters \cup sv.params
         /\ pc' = "insert_emit"
         /\ UNCHANGED <<error, sql>>

\* construct SELECT expression
insert_project ==
    /\ pc = "insert_project"
    /\ insert_project_check(
           _SelectExtractor__visit(_SelectExtractor, qba.yield_expr, qba.local_vars, qba.closure_vars))
    /\ UNCHANGED <<graph_vars, cache_vars, pool_vars, ast_vars, block_vars, tx_vars, call_vars>>
    /\ UNCHANGED <<qba, insert_obj, cond_expr, entity_joins, remaining_entities, joined_entities,
                   sql_join_group, sql_join, where_expr, sql_where, having_expr, sql_having, offset>>

\* select_query: " ".join(select_parts), TypeError when str.join meets a non-str
select_query(sv, from, where) ==
    IF join(",", sv.select, {}).err # "" THEN join(",", sv.select, {})
    ELSE IF truth(where) /\ where.obj THEN raised("TypeError")
    ELSE text(<<"SELECT">> \o join(",", sv.select, {}).toks \o <<"FROM">> \o join_groups(from)
              \o (IF truth(where) THEN <<"WHERE">> \o where.toks ELSE <<>>)
              \o (IF sv.order_by # <<>> THEN <<"ORDER BY">> \o join(",", sv.order_by, {}).toks ELSE <<>>),
              {})

\* builtins.max(param.index for param in parameters) + 1 if parameters else 1
placeholder_offset(params) ==
    IF params # {}
    THEN 1 + CHOOSE m \in {_query_parameters[k] : k \in params} :
                 \A k \in params : _query_parameters[k] <= m
    ELSE 1

RECURSIVE insert_names(_)
\* the names of the fields whose value is not DEFAULT, in field order
insert_names(fields) ==
    IF fields = <<>> THEN <<>>
    ELSE IF Head(fields).default THEN insert_names(Tail(fields))
    ELSE <<text(<<Head(fields).name>>, {})>> \o insert_names(Tail(fields))

\* f"${index + offset}" for index in range(n)
insert_placeholders(first, n) ==
    [index \in 1..n |-> text(<<"$" \o str(index - 1 + first)>>, {})]

\* insert_query
insert_query(sv, from, first, names) ==
    <<"INSERT", "INTO">> \o join_groups(from) \o <<"(">> \o str_join(",", names) \o <<")", "SELECT">>
    \o str_join(",", insert_placeholders(first, Len(names)))
    \o <<"WHERE", "NOT", "EXISTS", "(", "SELECT", "*", "FROM", "select_query", ")", "RETURNING">>
    \o str_join(",", sv.select)

\* the step of insert_emit, t the text of select_query
insert_emit_text(t) ==
    IF t.err # "" THEN fail(t.err) /\ UNCHANGED offset
    ELSE /\ offset' = placeholder_offset(parameters)
         /\ sql' = <<"WITH", "select_query", "AS", "(">> \o t.toks
                   \o <<")", ",", "insert_query", "AS", "(">>
                   \o insert_query(select_visitor, sql_join, placeholder_offset(parameters),
                                   insert_names(insert_obj.fields))
                   \o <<")", "SELECT", "*", "FROM", "select_query", "UNION ALL",
                        "SELECT", "*", "FROM", "insert_query">>
         /\ pc' = "done"
         /\ UNCHANGED error

\* select_query, offset, insert_query and the statement returned
insert_emit ==
    /\ pc = "insert_emit"
    /\ insert_emit_text(select_query(select_visitor, sql_join, sql_where))
    /\ UNCHANGED <<graph_vars, cache_vars, pool_vars, ast_vars, block_vars, tx_vars, call_vars>>
    /\ UNCHANGED <<qba, insert_obj, cond_expr, entity_joins, remaining_entities, joined_entities,
                   sql_join_group, sql_join, where_expr, sql_where, having_expr, sql_having,
                   select_visitor, parameters>>

(***************************************************************************)
(* The query definitions the calls are made with.                          *)
(***************************************************************************)
\* the most members a conjunction or disjunction of a predicate has
MaxMembers == 3

p_x == AttributeAccess(LocalRef("p"), "x")

a_y == AttributeAccess(LocalRef("a"), "y")

call1(name, arg) == FunctionCall(GlobalRef(name), <<arg>>)

call2(name, arg1, arg2) == FunctionCall(GlobalRef(name), <<arg1, arg2>>)

\* the operands of the comparisons: an entity attribute, a constant, query parameters,
\* a sub-query bound in the caller's frame, aggregate calls, an order marker
Operands == {p_x, Constant("1"), GlobalRef("p_1"), GlobalRef("p_7"), ClosureRef("sub"),
             call1("min", p_x), call1("min", call1("max", p_x)), call1("min", call1("asc", p_x)),
             call1("asc", p_x)}

Comparisons == {Comparison(">=", l, r) : l \in Operands, r \in Operands}

w1 == Comparison(">=", p_x, Constant("1"))

w2 == Comparison("==", a_y, Constant("2"))

h1 == Comparison(">=", call1("min", p_x), Constant("1"))

j1 == call2("inner_join", p_x, a_y)

j2 == call2("left_join", a_y, p_x)

\* j2 with the arguments in the other order
j3 == call2("right_join", p_x, a_y)

\* the members of the conjunctions and disjunctions
Members == {w1, w2, h1, j1, call1("asc", p_x), Disjunction(<<w1, j2>>)}

SeqsOf(S, n) == UNION {[1..m -> S] : m \in 2..n}

Predicates ==
    {None, j1, j2, j3, call2("inner_join", p_x, Constant("1")), call1("asc", p_x), Negation(h1)}
    \cup Comparisons
    \cup {Conjunction(ms) : ms \in SeqsOf(Members, MaxMembers)}
    \cup {Disjunction(ms) : ms \in SeqsOf(Members, MaxMembers)}

Projections ==
    {LocalRef("p"), p_x, Constant("5"), GlobalRef("p_2"), call1("min", p_x), call1("asc", p_x),
     TupleExpression(<<p_x, Constant("5")>>),
     TupleExpression(<<p_x, call1("min", a_y)>>),
     TupleExpression(<<call1("asc", p_x), a_y>>),
     TupleExpression(<<LocalRef("p"), call1("min", p_x)>>),
     TupleExpression(<<p_x, call1("year", a_y)>>),
     TupleExpression(<<p_x, Comparison("==", GlobalRef("p_2"), Constant("1"))>>)}

\* the caller's frame: a sub-query that itself takes a parameter
ClosureVars == [sub |-> [query |-> TRUE,
                         sql |-> <<"SELECT", "b", ".", "z", "FROM", "B", "AS", "b",
                                   "WHERE", "b", ".", "k", "=", "$1">>]]

QueryBuilderArgs(types, local_vars, pred, proj) ==
    [types |-> types, local_vars |-> local_vars, closure_vars |-> ClosureVars,
     cond_expr |-> pred, yield_expr |-> proj]

\* every predicate with the projection of the whole entity, and every projection
\* with no predicate, a WHERE predicate and a HAVING predicate
QueryDefinitions(types, local_vars) ==
    {QueryBuilderArgs(types, local_vars, pred, LocalRef("p")) : pred \in Predicates}
    \cup {QueryBuilderArgs(types, local_vars, pred, proj) : pred \in {None, w1, h1}, proj \in Projections}

(***************************************************************************)
(* select(...) called once on any of the query definitions                 *)
(***************************************************************************)
InitSelect ==
    \E args \in QueryDefinitions(<<"Person", "Address">>, <<"p", "a">>) :
        call(args, None, "select_validate")

NextSelect ==
    \/ select_validate
    \/ select_join
    \/ select_from_first
    \/ select_from_match
    \/ select_from_break
    \/ select_where
    \/ select_having
    \/ select_project
    \/ select_emit

SpecSelect == InitSelect /\ [][NextSelect]_vars

(***************************************************************************)
(* select(...) called once on a query over four entities whose predicate   *)
(* is made of join markers only                                            *)
(***************************************************************************)
JoinAliases == <<"p", "a", "b", "c">>

JoinTypes == <<"Person", "Address", "Book", "City">>

\* inner_join(l.x, r.y)
marker(l, r) == call2("inner_join", AttributeAccess(LocalRef(l), "x"), AttributeAccess(LocalRef(r), "y"))

\* a marker for each pair of aliases, written in the order of declaration,
\* and two written the other way round
JoinMarkers ==
    {marker(JoinAliases[at[1]], JoinAliases[at[2]]) :
        at \in {at \in (1..Len(JoinAliases)) \X (1..Len(JoinAliases)) : at[1] < at[2]}}
    \cup {marker("a", "p"), marker("c", "a")}

JoinPredicates == JoinMarkers \cup {Conjunction(ms) : ms \in SeqsOf(JoinMarkers, MaxMembers)}

InitJoins ==
    \E pred \in JoinPredicates :
        call(QueryBuilderArgs(JoinTypes, JoinAliases, pred, LocalRef("p")), None, "select_validate")

SpecJoins == InitJoins /\ [][NextSelect]_vars

\* the statement is returned
joins_done == pc = "done" /\ Len(qba.local_vars) = Len(JoinAliases) /\ insert_obj = None

\* the tokens of a statement after FROM (the statements here have no other clause)
from_clause(toks) ==
    LET at == CHOOSE i \in 1..Len(toks) : toks[i] = "FROM"
    IN  SubSeq(toks, at + 1, Len(toks))

RECURSIVE from_items(_)
\* the comma-separated items of a FROM clause
from_items(toks) ==
    IF \A i \in 1..Len(toks) : toks[i] # ","
    THEN <<toks>>
    ELSE LET at == CHOOSE i \in 1..Len(toks) : toks[i] = "," /\ \A k \in 1..(i - 1) : toks[k] # ","
         IN  <<SubSeq(toks, 1, at - 1)>> \o from_items(SubSeq(toks, at + 1, Len(toks)))

\* the length of `"T" AS v` and of `INNER JOIN "T" AS r ON l.x = r.y`
HeadLength == Len(<<"T", "AS", "v">>)

FragmentLength == Len(<<"INNER", "JOIN", "T", "AS", "r", "ON", "l", ".", "x", "=", "r", ".", "y">>)

\* the number of JOIN fragments of a FROM item
fragments(item) == (Len(item) - HeadLength) \div FragmentLength

\* the alias the i-th JOIN fragment of a FROM item joins, the head's alias for i = 0
joined_alias(item, i) ==
    IF i = 0 THEN item[HeadLength] ELSE item[HeadLength + FragmentLength * (i - 1) + 5]

\* the alias on the left of the ON condition of the i-th JOIN fragment
left_alias(item, i) == item[HeadLength + FragmentLength * (i - 1) + 7]

\* a FROM item is a head followed by JOIN fragments, each joining a new alias
\* to one the item has already mentioned
well_formed_item(item) ==
    /\ Len(item) = HeadLength + FragmentLength * fragments(item)
    /\ item[2] = "AS"
    /\ \A i \in 1..fragments(item) :
          LET base == HeadLength + FragmentLength * (i - 1)
          IN  /\ item[base + 2] = "JOIN" /\ item[base + 4] = "AS" /\ item[base + 6] = "ON"
              /\ item[base + 11] = joined_alias(item, i)
              /\ \E k \in 0..(i - 1) : left_alias(item, i) = joined_alias(item, k)

\* the places of a FROM clause that mention an alias as head or as the joined side
mentions(items, var) ==
    {at \in {<<n, i>> : n \in 1..Len(items), i \in 0..Len(JoinAliases)} :
        /\ at[2] <= fragments(items[at[1]])
        /\ joined_alias(items[at[1]], at[2]) = var}

\* what is left to do of the assembly of the FROM clause
from_steps_left == 2 * Len(remaining_entities) + (IF pc = "select_match" THEN 1 ELSE 0)

\* C22: the assembly of the FROM clause ends (every step of it leaves less to do), and the
\* FROM clause of the statement returned mentions every declared alias exactly once, as the
\* head of an item or as the joined side of a JOIN whose left alias the item already has
FromMentionsEachAliasOnce ==
    [][/\ pc \in {"select_from", "select_match"} /\ pc' \in {"select_from", "select_match"}
          => from_steps_left' < from_steps_left
       /\ joins_done' =>
              LET items == from_items(from_clause(sql'))
              IN  /\ \A n \in 1..Len(items) : well_formed_item(items[n])
                  /\ \A i \in 1..Len(qba.local_vars) :
                        Cardinality(mentions(items, qba.local_vars[i])) = 1]_vars

\* a statement is returned whose FROM clause has two items, the first with two joins,
\* one of them recorded with its entities the other way round
AliasesJoinedInGroups ==
    /\ joins_done
    /\ LET items == from_items(from_clause(sql))
       IN  /\ Len(items) = 2
           /\ fragments(items[1]) = 2
           /\ LET recorded == _JoinExtractor_visit(qba.cond_expr, <<>>).entity_joins
              IN  \E n \in 1..Len(recorded) :
                     /\ recorded[n].join.right_entity = left_alias(items[1], 1)
                     /\ recorded[n].join.left_entity = joined_alias(items[1], 1)

\* the join markers a predicate is made of
markers_of(pred) == IF pred.k = "Conjunction" THEN pred.a ELSE <<pred>>

RECURSIVE fragments_of(_)
\* the number of JOIN fragments of the items of a FROM clause
fragments_of(items) ==
    IF items = <<>> THEN 0 ELSE fragments(Head(items)) + fragments_of(Tail(items))

\* C23: when select returns a statement, its FROM clause has one JOIN ... ON fragment
\* for each join marker of the predicate: no recorded join is dropped without an error
EveryJoinMarkerEmitted ==
    joins_done =>
        fragments_of(from_items(from_clause(sql))) = Len(markers_of(qba.cond_expr))

\* the joins _match_entities can return in a state: one for each alias of
\* joined_entities that the walk over the set can meet first among those with a match
next_joins ==
    {pop(entity_joins, left, first_match(entity_joins, left, remaining_entities)) :
        left \in {l \in joined_entities : first_match(entity_joins, l, remaining_entities) # ""}}

\* C24: the statement does not depend on the order in which _match_entities walks the set
\* joined_entities: whenever a join is to be attached, the walk can return one join only
\* (two joins it could return give two statements with different FROM clauses)
NextJoinIsDetermined ==
    pc = "select_match" /\ Len(qba.local_vars) = Len(JoinAliases) => Cardinality(next_joins) <= 1

(***************************************************************************)
(* insert_or_select(...) called once with an object and a query definition *)
(***************************************************************************)
\* comparisons of one entity p, one of them with the third query parameter
w3 == Comparison("==", p_x, GlobalRef("p_3"))

InsertMembers == {w1, w3, h1}

InsertPredicates ==
    {None, call1("asc", p_x), Negation(h1)}
    \cup Comparisons
    \cup {Conjunction(ms) : ms \in SeqsOf(InsertMembers, 2)}
    \cup {Disjunction(ms) : ms \in SeqsOf(InsertMembers, 2)}

InsertProjections ==
    {LocalRef("p"), p_x, Constant("5"), GlobalRef("p_2"), call1("min", p_x), call1("asc", p_x),
     TupleExpression(<<p_x, call1("year", p_x)>>)}

\* a query of one entity, and queries of two entities with and without a join
InsertDefinitions ==
    {QueryBuilderArgs(<<"Person">>, <<"p">>, pred, LocalRef("p")) : pred \in InsertPredicates}
    \cup {QueryBuilderArgs(<<"Person">>, <<"p">>, pred, proj) : pred \in {None, w1, w3}, proj \in InsertProjections}
    \cup {QueryBuilderArgs(<<"Person", "Address">>, <<"p", "a">>, pred, LocalRef("p")) :
             pred \in {w1, j1, Conjunction(<<j1, w1>>), Disjunction(<<w1, j2>>),
                       call2("inner_join", p_x, Constant("1"))}}

\* a Person with every field given, a Person whose id is DEFAULT, an Address, a value of no data class
InsertObjects ==
    {[dataclass |-> TRUE, type |-> "Person",
      fields |-> <<[name |-> "id", default |-> FALSE], [name |-> "x", default |-> FALSE]>>],
     [dataclass |-> TRUE, type |-> "Person",
      fields |-> <<[name |-> "id", default |-> TRUE], [name |-> "x", default |-> FALSE]>>],
     [dataclass |-> TRUE, type |-> "Address",
      fields |-> <<[name |-> "id", default |-> FALSE], [name |-> "y", default |-> FALSE]>>],
     [dataclass |-> FALSE, type |-> "str", fields |-> <<>>]}

InitInsert ==
    \E args \in InsertDefinitions, obj \in InsertObjects :
        call(args, obj, "insert_validate")

NextInsert ==
    \/ insert_validate
    \/ insert_join
    \/ insert_from
    \/ insert_where
    \/ insert_having
    \/ insert_project
    \/ insert_emit

SpecInsert == InitInsert /\ [][NextInsert]_vars

(***************************************************************************)
(* What the expressions of a query contain.                                *)
(***************************************************************************)
RECURSIVE subexpressions(_)
\* the expression and every expression below it
subexpressions(e) == {e} \cup UNION {subexpressions(e.a[i]) : i \in 1..Len(e.a)}

comparisons(e) == {c \in subexpressions(e) : c.k = "Comparison"}

contains_aggregate(e) == \E c \in subexpressions(e) : is_aggregation_call(c)

contains_join(e) == \E c \in subexpressions(e) : Dispatcher_get(_join_functions, c)

contains_order(e) == \E c \in subexpressions(e) : Dispatcher_get(_order_functions, c)

\* an aggregate call one of whose arguments contains an aggregate call
nested_aggregate(e) ==
    \E c \in subexpressions(e) :
        is_aggregation_call(c) /\ \E i \in 2..Len(c.a) : contains_aggregate(c.a[i])

\* a join call that is neither the predicate nor a direct member of the predicate when
\* the predicate is a conjunction
join_misplaced(e) ==
    IF e.k = "Conjunction"
    THEN \E i \in 1..Len(e.a) : ~ Dispatcher_get(_join_functions, e.a[i]) /\ contains_join(e.a[i])
    ELSE ~ Dispatcher_get(_join_functions, e) /\ contains_join(e)

RECURSIVE join_stripped(_), join_stripped_members(_)
\* the predicate with every join call removed: a Boolean expression left with one member
\* is that member, left with none it is None, else it keeps the members left
join_stripped(e) ==
    IF Dispatcher_get(_join_functions, e) THEN None
    ELSE IF e.k \in BooleanClasses
    THEN IF Len(join_stripped_members(e.a)) > 1 THEN [e EXCEPT !.a = join_stripped_members(e.a)]
         ELSE IF Len(join_stripped_members(e.a)) = 1 THEN join_stripped_members(e.a)[1]
         ELSE None
    ELSE e

join_stripped_members(exprs) ==
    IF exprs = <<>> THEN <<>>
    ELSE filter_None(<<join_stripped(Head(exprs))>>) \o join_stripped_members(Tail(exprs))

\* the top-level elements of a projection, an order marker standing for its argument
projection_elements(e) ==
    LET elements == IF e.k = "TupleExpression" THEN e.a ELSE <<e>>
    IN  [i \in 1..Len(elements) |->
            IF Dispatcher_get(_order_functions, elements[i]) THEN elements[i].a[2] ELSE elements[i]]

RECURSIVE without_aggregate(_)
\* the elements that contain no aggregate call, in order
without_aggregate(elements) ==
    IF elements = <<>> THEN <<>>
    ELSE (IF contains_aggregate(Head(elements)) THEN <<>> ELSE <<Head(elements)>>)
         \o without_aggregate(Tail(elements))

\* the call is one of select that returned its statement
select_done == pc = "done" /\ qba # None /\ insert_obj = None

\* the call is one of insert_or_select that returned its statement
insert_done == pc = "done" /\ insert_obj # None

\* the ordinals k whose placeholder $k is in a text
ordinals(toks) == {k \in 1..20 : \E i \in 1..Len(toks) : toks[i] = "$" \o str(k)}

(***************************************************************************)
(* Properties of QueryBuilder.select                                       *)
(***************************************************************************)
\* C2: a comparison emitted in WHERE holds no aggregate call, a comparison emitted in
\* HAVING holds one, and no comparison of the predicate is emitted in both clauses
WhereHavingPartition ==
    select_done =>
        /\ \A c \in comparisons(where_expr) : ~ contains_aggregate(c)
        /\ \A c \in comparisons(having_expr) : contains_aggregate(c)
        /\ comparisons(where_expr) \cap comparisons(having_expr) = {}

\* C3: after join extraction the predicate handed to the WHERE and HAVING passes holds no
\* join call, whatever number of members is left: it is the predicate with its join
\* calls removed and collapsed
JoinCallsRemoved ==
    insert_obj = None /\ pc \in {"select_from", "select_match", "select_having", "select_project",
                                  "select_emit", "done"} =>
        /\ ~ contains_join(cond_expr)
        /\ cond_expr = join_stripped(qba.cond_expr)

\* C4: select returns no statement when a join call is anywhere but a direct member of
\* the top-level conjunction
MisplacedJoinFails == select_done => ~ join_misplaced(qba.cond_expr)

\* C5: select returns no statement when an order marker is anywhere in the predicate
OrderInPredicateFails == select_done => ~ contains_order(qba.cond_expr)

\* C6: select returns no statement when the arguments of an aggregate call hold an
\* aggregate call
NestedAggregateFails ==
    select_done => ~ nested_aggregate(qba.cond_expr) /\ ~ nested_aggregate(qba.yield_expr)

\* C7: every comparison of the predicate is emitted in WHERE or in HAVING unless select fails
ComparisonEmittedOrFails ==
    select_done =>
        \A c \in comparisons(qba.cond_expr) :
            c \in comparisons(where_expr) \cup comparisons(having_expr)

\* C8: GROUP BY is emitted only if a top-level projection element holds an aggregate call,
\* and then lists the elements that hold none, in projection order
GroupByOnlyWithAggregate ==
    select_done =>
        LET elements == projection_elements(qba.yield_expr)
            listed == without_aggregate(elements)
        IN  IF \E i \in 1..Len(elements) : contains_aggregate(elements[i])
            THEN sql_group(select_visitor) =
                     [i \in 1..Len(listed) |-> _QueryVisitor_visit(listed[i], 0, qba.closure_vars)]
            ELSE sql_group(select_visitor) = <<>>

(***************************************************************************)
(* Properties of QueryBuilder.insert_or_select                             *)
(***************************************************************************)
\* C9: the insert placeholders are $offset .. $(offset+n-1), offset one more than the
\* highest ordinal rendered in the SELECT half (1 if none), so none of them is a
\* placeholder of the SELECT half
InsertPlaceholdersFollowSelect ==
    insert_done =>
        LET half == select_query(select_visitor, sql_join, sql_where).toks
            n == Len(insert_names(insert_obj.fields))
            placeholders == insert_placeholders(offset, n)
        IN  /\ offset = IF ordinals(half) = {} THEN 1
                        ELSE 1 + CHOOSE m \in ordinals(half) : \A k \in ordinals(half) : k <= m
            /\ \A i \in 1..n : placeholders[i].toks = <<"$" \o str(offset + i - 1)>>
            /\ \A i \in 1..n : \A j \in 1..Len(half) : half[j] # placeholders[i].toks[1]

\* C10: insert_or_select returns no statement when the predicate holds a join call or the
\* predicate or the projection holds an aggregate call, and reports no aggregation
\* error when neither holds an aggregate call
InsertRejectsJoinAndAggregate ==
    /\ insert_done =>
           /\ ~ contains_join(qba.cond_expr)
           /\ ~ contains_aggregate(qba.cond_expr)
           /\ ~ contains_aggregate(qba.yield_expr)
    /\ insert_obj # None /\ error = AggregationError =>
           contains_aggregate(qba.cond_expr) \/ contains_aggregate(qba.yield_expr)

\* C11: insert_or_select returns no statement when the projection holds an order marker,
\* and the select_query of a statement it returns has no ORDER BY clause
InsertRejectsOrder ==
    insert_done =>
        /\ ~ contains_order(qba.yield_expr)
        /\ \A i \in 1..Len(select_query(select_visitor, sql_join, sql_where).toks) :
               select_query(select_visitor, sql_join, sql_where).toks[i] # "ORDER BY"

(***************************************************************************)
(* node.py: AbstractNode.  The objects live in a heap h = [n, err]: n is   *)
(* the sequence of the node objects, a reference to a node is its          *)
(* position in n and 0 is None; err is the exception an operation raised   *)
(* ("" if none), after which the operations do nothing more.               *)
(***************************************************************************)
AbstractNode(expr) ==
    [expr |-> expr, inverted |-> FALSE, on_true |-> 0, on_false |-> 0, origins |-> <<>>]

\* a node is constructed: it is the last object of the heap
new_node(h, expr) == [h EXCEPT !.n = Append(@, AbstractNode(expr))]

\* node.origins.remove(origin): ValueError if origin is not in the list
origins_remove(h, target, origin) ==
    IF \A i \in 1..Len(h.n[target].origins) : h.n[target].origins[i] # origin
    THEN [h EXCEPT !.err = "ValueError"]
    ELSE [h EXCEPT !.n[target].origins = remove(@, origin)]

\* self.on_true = target, the target's origins being left as they are
bind_on_true_unrecorded(h, self, target) ==
    IF h.err # "" THEN h ELSE [h EXCEPT !.n[self].on_true = target]

\* self.on_true = target; target.origins.append(self)
bind_on_true(h, self, target) ==
    IF h.err # "" THEN h
    ELSE IF target # 0
         THEN [h EXCEPT !.n[self].on_true = target, !.n[target].origins = Append(@, self)]
         ELSE [h EXCEPT !.n[self].on_true = 0]

set_on_true(h, self, target) ==
    IF h.err # "" THEN h
    ELSE bind_on_true(IF h.n[self].on_true # 0
                      THEN origins_remove(h, h.n[self].on_true, self)
                      ELSE h, self, target)

\* self.on_false = target; target.origins.append(self)
bind_on_false(h, self, target) ==
    IF h.err # "" THEN h
    ELSE IF target # 0
         THEN [h EXCEPT !.n[self].on_false = target, !.n[target].origins = Append(@, self)]
         ELSE [h EXCEPT !.n[self].on_false = 0]

set_on_false(h, self, target) ==
    IF h.err # "" THEN h
    ELSE bind_on_false(IF h.n[self].on_false # 0
                       THEN origins_remove(h, h.n[self].on_false, self)
                       ELSE h, self, target)

set_target(h, self, t, f) == set_on_false(set_on_true(h, self, t), self, f)

\* the second statement of redirect, after the first has acted
redirect_on_false(h, self, source, target) ==
    IF h.err # "" THEN h
    ELSE IF h.n[self].on_false = source THEN set_on_false(h, self, target) ELSE h

redirect(h, self, source, target) ==
    IF h.err # "" THEN h
    ELSE redirect_on_false(IF h.n[self].on_true = source
                           THEN set_on_true(h, self, target)
                           ELSE h, self, source, target)

\* for origin in source.origins: origin.redirect(source, self).  The loop reads the
\* list by position while redirect removes elements from it.
RECURSIVE seize_origins_from(_, _, _, _)
seize_origins_from(h, self, source, i) ==
    IF h.err # "" THEN h
    ELSE IF i > Len(h.n[source].origins) THEN h
    ELSE seize_origins_from(redirect(h, h.n[source].origins[i], source, self),
                            self, source, i + 1)

seize_origins(h, self, source) == seize_origins_from(h, self, source, 1)

twist(h, self) ==
    [h EXCEPT !.n[self].inverted = ~ @,
              !.n[self].on_true = h.n[self].on_false,
              !.n[self].on_false = h.n[self].on_true]

is_origin_consistent(h, self) ==
    \/ \A i \in 1..Len(h.n[self].origins) : h.n[h.n[self].origins[i]].on_true = self
    \/ \A i \in 1..Len(h.n[self].origins) : h.n[h.n[self].origins[i]].on_false = self

\* topological_sort: st = [result, seen]
RECURSIVE recursive_helper(_, _, _)
RECURSIVE recursive_helper_child(_, _, _)
recursive_helper_child(h, child, st) ==
    IF child # 0 /\ child \notin st.seen
    THEN recursive_helper(h, child, [st EXCEPT !.seen = @ \cup {child}])
    ELSE st

recursive_helper(h, self, st) ==
    [recursive_helper_child(h, h.n[self].on_false,
                            recursive_helper_child(h, h.n[self].on_true, st))
        EXCEPT !.result = Append(@, self)]

reverse(s) == [i \in 1..Len(s) |-> s[Len(s) + 1 - i]]

\* topological_sort without result.reverse()
post_order(h, self) ==
    recursive_helper(h, self, [result |-> <<>>, seen |-> {}]).result

topological_sort(h, self) ==
    reverse(recursive_helper(h, self, [result |-> <<>>, seen |-> {}]).result)

(***************************************************************************)
(* decompiler.py: JumpResolver and CodeExpressionAnalyzer.  A basic block  *)
(* is represented by its last instruction; block k starts at offset        *)
(* 2 * (k - 1), which is also the offset of that instruction.              *)
(***************************************************************************)
start_offset(k) == 2 * (k - 1)

\* the pair (on_true, on_false) of offsets; None is -1
JumpResolver_process(instr, instr_offset) ==
    LET _next == instr_offset + 2
    IN  CASE instr.opname = "JUMP_ABSOLUTE" -> <<instr.arg, instr.arg>>
          [] instr.opname = "JUMP_FORWARD" -> <<_next + instr.arg, _next + instr.arg>>
          [] instr.opname = "JUMP_IF_FALSE_OR_POP" -> <<_next, instr.arg>>
          [] instr.opname = "JUMP_IF_TRUE_OR_POP" -> <<instr.arg, _next>>
          [] instr.opname = "POP_JUMP_IF_FALSE" -> <<_next, instr.arg>>
          [] instr.opname = "POP_JUMP_IF_TRUE" -> <<instr.arg, _next>>
          [] instr.opname = "FOR_ITER" -> <<_next, _next + instr.arg>>
          [] instr.opname = "RETURN_VALUE" -> <<-1, -1>>
          [] OTHER -> <<_next, _next>>

\* node_by_offset[offset][0]: the node of the block that starts at the offset
node_by_offset(target) == IF target = -1 THEN 0 ELSE (target \div 2) + 1

\* for node, on_true, on_false in node_by_offset.values(): node.set_target(...)
RECURSIVE _get_abstract_nodes_targets(_, _, _)
_get_abstract_nodes_targets(h, instrs, k) ==
    IF k > Len(instrs) THEN h
    ELSE _get_abstract_nodes_targets(
             set_target(h, k,
                        node_by_offset(JumpResolver_process(instrs[k], start_offset(k))[1]),
                        node_by_offset(JumpResolver_process(instrs[k], start_offset(k))[2])),
             instrs, k + 1)

\* result.jump_expr of a block: the value a conditional jump pops, an opaque name here
Atoms == <<"a", "b", "c", "d">>

jump_expr(instr, k) ==
    IF instr.opname \in {"POP_JUMP_IF_FALSE", "POP_JUMP_IF_TRUE"}
    THEN LocalRef(Atoms[k - 2])
    ELSE None

\* the nodes after _get_abstract_nodes and _disassemble
_get_abstract_nodes(instrs) ==
    _get_abstract_nodes_targets(
        [n |-> [k \in 1..Len(instrs) |-> AbstractNode(jump_expr(instrs[k], k))], err |-> ""],
        instrs, 1)

\* the outcome of a step on the heap: the nodes are stored, an exception ends the call
heap_step(h, to) ==
    /\ node' = h.n
    /\ IF h.err # ""
       THEN pc' = "failed" /\ error' = h.err
       ELSE pc' = to /\ error' = ""

\* get_expression: nodes = nodes[1:-1];
\* cond_expr = self._get_condition(nodes) if len(nodes) > 2 else None
get_expression ==
    /\ pc = "get_expression"
    /\ nodes' = SubSeq(nodes, 2, Len(nodes) - 1)
    /\ pc' = IF Len(nodes) - 2 > 2 THEN "get_condition" ELSE "done"
    /\ UNCHANGED <<instructions, node, cond_nodes, true_node, false_node, root, position,
                   conditional_expr, error>>
    /\ UNCHANGED <<builder_vars, cache_vars, pool_vars, ast_vars, block_vars, tx_vars, call_vars>>

\* one pass of "redirect result statement nodes to boolean result nodes"
redirect_on_false_result(h, self, loop_head, loop_body, t, f) ==
    IF h.err # "" THEN h
    ELSE IF h.n[self].on_false = loop_body THEN set_on_false(h, self, t)
    ELSE IF h.n[self].on_false = loop_head THEN set_on_false(h, self, f)
    ELSE h

redirect_result(h, self, loop_head, loop_body, t, f) ==
    redirect_on_false_result(
        IF h.n[self].on_true = loop_body THEN set_on_true(h, self, t)
        ELSE IF h.n[self].on_true = loop_head THEN set_on_true(h, self, f)
        ELSE h, self, loop_head, loop_body, t, f)

RECURSIVE redirect_results(_, _, _, _, _, _, _)
redirect_results(h, ids, i, loop_head, loop_body, t, f) ==
    IF h.err # "" THEN h
    ELSE IF i > Len(ids) THEN h
    ELSE redirect_results(redirect_result(h, ids[i], loop_head, loop_body, t, f),
                          ids, i + 1, loop_head, loop_body, t, f)

\* _get_condition up to root = cond_nodes[0]
get_condition_redirect ==
    /\ pc = "get_condition"
    /\ true_node' = Len(node) + 1
    /\ false_node' = Len(node) + 2
    /\ cond_nodes' = SubSeq(nodes, 2, Len(nodes) - 1) \o <<Len(node) + 1, Len(node) + 2>>
    /\ root' = nodes[2]
    /\ position' = 1
    /\ heap_step(set_target(
                     redirect_results(
                         new_node(new_node([n |-> node, err |-> ""], Constant("True")),
                                  Constant("False")),
                         SubSeq(nodes, 2, Len(nodes) - 1), 1,
                         nodes[1], nodes[Len(nodes)], Len(node) + 1, Len(node) + 2),
                     nodes[1], 0, 0),
                 "eliminate")
    /\ UNCHANGED <<instructions, nodes, conditional_expr>>
    /\ UNCHANGED <<builder_vars, cache_vars, pool_vars, ast_vars, block_vars, tx_vars, call_vars>>

\* node.on_true.seize_origins(node): AttributeError when node.on_true is None
eliminate_node(h, self) ==
    IF h.n[self].on_true = 0
    THEN [h EXCEPT !.err = "AttributeError"]
    ELSE set_target(seize_origins(h, h.n[self].on_true, self), self, 0, 0)

\* one iteration of "eliminate nodes that correspond to unconditional forward jumps"
get_condition_eliminate ==
    /\ pc = "eliminate"
    /\ position <= Len(cond_nodes)
    /\ position' = position + 1
    /\ heap_step(IF /\ node[cond_nodes[position]].expr = None
                    /\ node[cond_nodes[position]].on_true = node[cond_nodes[position]].on_false
                 THEN eliminate_node([n |-> node, err |-> ""], cond_nodes[position])
                 ELSE [n |-> node, err |-> ""],
                 "eliminate")
    /\ UNCHANGED <<instructions, nodes, cond_nodes, true_node, false_node, root,
                   conditional_expr>>
    /\ UNCHANGED <<builder_vars, cache_vars, pool_vars, ast_vars, block_vars, tx_vars, call_vars>>

\* the condition of the list comprehension that replaces cond_nodes
is_eliminated(self) ==
    node[self].expr = None /\ node[self].on_true = 0 /\ node[self].on_false = 0

get_condition_filter ==
    /\ pc = "eliminate"
    /\ position > Len(cond_nodes)
    /\ cond_nodes' = SelectSeq(cond_nodes, is_eliminated)
    /\ pc' = "align"
    /\ UNCHANGED <<instructions, node, nodes, true_node, false_node, root, position,
                   conditional_expr, error>>
    /\ UNCHANGED <<builder_vars, cache_vars, pool_vars, ast_vars, block_vars, tx_vars, call_vars>>

\* edge_type of a node: that of its first marked origin, False if none is marked
edge_type_of(h, marked, self) ==
    LET origins == h.n[self].origins
        found == {i \in 1..Len(origins) : origins[i] \in marked}
    IN  IF found = {} THEN FALSE
        ELSE h.n[origins[CHOOSE i \in found : \A j \in found : i <= j]].on_true = self

\* for origin in node.origins: if edge_type != (origin.on_true is node): ...
\* st = [h, marked]
RECURSIVE align_origins(_, _, _, _)
align_origins(st, self, edge_type, i) ==
    IF i > Len(st.h.n[self].origins) THEN st
    ELSE align_origins(
             IF edge_type # (st.h.n[st.h.n[self].origins[i]].on_true = self)
             THEN [h |-> twist(st.h, st.h.n[self].origins[i]),
                   marked |-> st.marked \cup {st.h.n[self].origins[i]}]
             ELSE st,
             self, edge_type, i + 1)

RECURSIVE align(_, _, _)
align(st, ids, i) ==
    IF i > Len(ids) THEN st
    ELSE align(align_origins(st, ids[i], edge_type_of(st.h, st.marked, ids[i]), 1),
               ids, i + 1)

\* assert all(node.is_origin_consistent() for node in cond_nodes)
assert_consistent(h, ids) ==
    IF \A i \in 1..Len(ids) : is_origin_consistent(h, ids[i])
    THEN h
    ELSE [h EXCEPT !.err = "AssertionError"]

\* "align DAG edge colors ..." and the assertion after it
get_condition_align ==
    /\ pc = "align"
    /\ heap_step(assert_consistent(
                     align([h |-> [n |-> node, err |-> ""], marked |-> {}], cond_nodes, 1).h,
                     cond_nodes),
                 "true_node")
    /\ UNCHANGED <<instructions, nodes, cond_nodes, true_node, false_node, root, position,
                   conditional_expr>>
    /\ UNCHANGED <<builder_vars, cache_vars, pool_vars, ast_vars, block_vars, tx_vars, call_vars>>

RECURSIVE twist_all(_, _, _)
twist_all(h, ids, i) ==
    IF i > Len(ids) THEN h ELSE twist_all(twist(h, ids[i]), ids, i + 1)

\* "ensure that True/False result nodes are consistent with their inputs" and the
\* assertion after it
get_condition_true_node ==
    /\ pc = "true_node"
    /\ heap_step(assert_consistent(
                     IF \A i \in 1..Len(node[true_node].origins) :
                            node[node[true_node].origins[i]].on_true = true_node
                     THEN [n |-> node, err |-> ""]
                     ELSE twist_all([n |-> node, err |-> ""], cond_nodes, 1),
                     cond_nodes),
                 "sort")
    /\ UNCHANGED <<instructions, nodes, cond_nodes, true_node, false_node, root, position,
                   conditional_expr>>
    /\ UNCHANGED <<builder_vars, cache_vars, pool_vars, ast_vars, block_vars, tx_vars, call_vars>>

contains(s, x) == \E i \in 1..Len(s) : s[i] = x

\* nodes.remove(true_node); nodes.remove(false_node): ValueError if absent
get_condition_sort_check(sorted) ==
    IF contains(sorted, true_node) /\ contains(sorted, false_node)
    THEN /\ nodes' = remove(remove(sorted, true_node), false_node)
         /\ pc' = "fold"
         /\ error' = ""
    ELSE /\ nodes' = sorted
         /\ pc' = "failed"
         /\ error' = "ValueError"

get_condition_sort ==
    /\ pc = "sort"
    /\ get_condition_sort_check(topological_sort([n |-> node, err |-> ""], root))
    /\ UNCHANGED <<instructions, node, cond_nodes, true_node, false_node, root, position,
                   conditional_expr>>
    /\ UNCHANGED <<builder_vars, cache_vars, pool_vars, ast_vars, block_vars, tx_vars, call_vars>>

\* end of the span begun at start: "end = start + 1; while end < len(nodes) and
\* nodes[start].on_false is nodes[end].on_false: end += 1", positions counted from 1
conjunction_end(ns, start) ==
    CHOOSE end \in (start + 1)..(Len(ns) + 1) :
        /\ \A j \in (start + 1)..(end - 1) : node[ns[start]].on_false = node[ns[j]].on_false
        /\ end = Len(ns) + 1 \/ node[ns[start]].on_false # node[ns[end]].on_false

disjunction_end(ns, start) ==
    CHOOSE end \in (start + 1)..(Len(ns) + 1) :
        /\ \A j \in (start + 1)..(end - 1) : node[ns[start]].on_true = node[ns[j]].on_true
        /\ end = Len(ns) + 1 \/ node[ns[start]].on_true # node[ns[end]].on_true

is_conjunction(ns, start) == conjunction_end(ns, start) - start > 1

is_disjunction(ns, start) == disjunction_end(ns, start) - start > 1

\* the set of the values of start at which the for loop finds a span
replacements(ns) ==
    {start \in 1..(Len(ns) - 1) : is_conjunction(ns, start) \/ is_disjunction(ns, start)}

\* the value of start at which the for loop breaks
first_start(ns) == CHOOSE start \in replacements(ns) : \A s \in replacements(ns) : start <= s

\* for n in nodes[start:end]: n.set_target(None, None)
RECURSIVE clear_targets(_, _, _, _)
clear_targets(h, ns, i, end) ==
    IF i >= end THEN h
    ELSE clear_targets(set_target(h, ns[i], 0, 0), ns, i + 1, end)

\* the body of "if end - start > 1": h already holds the new node, the last of the heap
replace_span(h, ns, start, end, t, f) ==
    clear_targets(seize_origins(set_target(h, Len(h.n), t, f), Len(h.n), ns[start]),
                  ns, start, end)

member_exprs(ns, start, end) == [i \in 1..(end - start) |-> node[ns[start + i - 1]].expr]

\* nodes[start:end] = [conj_node]
replace_nodes(ns, start, end, new) ==
    SubSeq(ns, 1, start - 1) \o <<new>> \o SubSeq(ns, end, Len(ns))

fold_conjunction_at(start, end) ==
    /\ nodes' = replace_nodes(nodes, start, end, Len(node) + 1)
    /\ heap_step(replace_span(
                     new_node([n |-> node, err |-> ""],
                              Conjunction(member_exprs(nodes, start, end))),
                     nodes, start, end,
                     node[nodes[end - 1]].on_true, node[nodes[start]].on_false),
                 "fold")

\* an iteration of the while loop that replaces a span by a conjunction
fold_conjunction ==
    /\ pc = "fold"
    /\ Len(nodes) > 1
    /\ replacements(nodes) # {}
    /\ is_conjunction(nodes, first_start(nodes))
    /\ fold_conjunction_at(first_start(nodes), conjunction_end(nodes, first_start(nodes)))
    /\ UNCHANGED <<instructions, cond_nodes, true_node, false_node, root, position,
                   conditional_expr>>
    /\ UNCHANGED <<builder_vars, cache_vars, pool_vars, ast_vars, block_vars, tx_vars, call_vars>>

fold_disjunction_at(start, end) ==
    /\ nodes' = replace_nodes(nodes, start, end, Len(node) + 1)
    /\ heap_step(replace_span(
                     new_node([n |-> node, err |-> ""],
                              Disjunction(member_exprs(nodes, start, end))),
                     nodes, start, end,
                     node[nodes[start]].on_true, node[nodes[end - 1]].on_false),
                 "fold")

\* an iteration of the while loop that replaces a span by a disjunction
fold_disjunction ==
    /\ pc = "fold"
    /\ Len(nodes) > 1
    /\ replacements(nodes) # {}
    /\ ~ is_conjunction(nodes, first_start(nodes))
    /\ fold_disjunction_at(first_start(nodes), disjunction_end(nodes, first_start(nodes)))
    /\ UNCHANGED <<instructions, cond_nodes, true_node, false_node, root, position,
                   conditional_expr>>
    /\ UNCHANGED <<builder_vars, cache_vars, pool_vars, ast_vars, block_vars, tx_vars, call_vars>>

\* an iteration of the while loop that finds no span: nodes[0].twist()
fold_twist ==
    /\ pc = "fold"
    /\ Len(nodes) > 1
    /\ replacements(nodes) = {}
    /\ node' = twist([n |-> node, err |-> ""], nodes[1]).n
    /\ UNCHANGED <<instructions, nodes, cond_nodes, true_node, false_node, root, position,
                   conditional_expr, pc, error>>
    /\ UNCHANGED <<builder_vars, cache_vars, pool_vars, ast_vars, block_vars, tx_vars, call_vars>>

\* return nodes[0].expr
get_condition_return ==
    /\ pc = "fold"
    /\ ~ (Len(nodes) > 1)
    /\ conditional_expr' = node[nodes[1]].expr
    /\ pc' = "done"
    /\ UNCHANGED <<instructions, node, nodes, cond_nodes, true_node, false_node, root,
                   position, error>>
    /\ UNCHANGED <<builder_vars, cache_vars, pool_vars, ast_vars, block_vars, tx_vars, call_vars>>

(***************************************************************************)
(* The code objects analysed: generator expressions with up to MaxCond     *)
(* blocks between the loop head and the loop body, each ending in a        *)
(* conditional jump or in an unconditional one, to a later block or to the *)
(* loop head.                                                              *)
(***************************************************************************)
MaxCond == 3

instruction(opname, arg) == [opname |-> opname, arg |-> arg]

\* the last instructions a block k between head and body can have, of count + 4 blocks
jumps(k, count) ==
    {instruction(op, start_offset(t)) :
        op \in {"POP_JUMP_IF_FALSE", "POP_JUMP_IF_TRUE"}, t \in {2} \cup (k + 1)..(count + 3)}
    \cup {instruction("JUMP_FORWARD", start_offset(t) - start_offset(k + 1)) :
            t \in (k + 1)..(count + 3)}
    \cup {instruction("JUMP_ABSOLUTE", start_offset(2))}

\* prolog, loop head, count blocks, loop body, epilog
code_objects(count) ==
    {<<instruction("LOAD_FAST", 0), instruction("FOR_ITER", start_offset(count + 4) - 4)>>
        \o tests
        \o <<instruction("JUMP_ABSOLUTE", start_offset(2)), instruction("RETURN_VALUE", 0)>> :
     tests \in {b \in [1..count -> UNION {jumps(k, count) : k \in 3..(count + 2)}] :
                    \A i \in 1..count : b[i] \in jumps(i + 2, count)}}

\* the nodes reached from the first block after the loop head
RECURSIVE reached(_, _)
reached(instrs, ks) ==
    IF {node_by_offset(JumpResolver_process(instrs[k], start_offset(k))[i]) :
            k \in ks \ {2, Len(instrs) - 1}, i \in 1..2} \subseteq ks
    THEN ks
    ELSE reached(instrs,
                 ks \cup {node_by_offset(JumpResolver_process(instrs[k], start_offset(k))[i]) :
                            k \in ks \ {2, Len(instrs) - 1}, i \in 1..2})

CodeObjects ==
    {instrs \in UNION {code_objects(count) : count \in 0..MaxCond} :
        3..(Len(instrs) - 2) \subseteq reached(instrs, {3})}

InitCondition ==
    /\ pc = "get_expression"
    /\ error = ""
    /\ instructions \in CodeObjects
    /\ node = _get_abstract_nodes(instructions).n
    /\ nodes = [k \in 1..Len(instructions) |-> k]
    /\ cond_nodes = <<>>
    /\ true_node = 0
    /\ false_node = 0
    /\ root = 0
    /\ position = 0
    /\ conditional_expr = None
    /\ no_query
    /\ no_cache
    /\ no_pool
    /\ no_ast
    /\ no_block
    /\ no_tx
    /\ no_call

NextCondition ==
    \/ get_expression
    \/ get_condition_redirect
    \/ get_condition_eliminate
    \/ get_condition_filter
    \/ get_condition_align
    \/ get_condition_true_node
    \/ get_condition_sort
    \/ fold_conjunction
    \/ fold_disjunction
    \/ fold_twist
    \/ get_condition_return

SpecCondition == InitCondition /\ [][NextCondition]_vars

\* the conditional jumps a block k between head and body can end in, of count + 4 blocks
branches(k, count) ==
    {instruction(op, start_offset(t)) :
        op \in {"POP_JUMP_IF_FALSE", "POP_JUMP_IF_TRUE"}, t \in {2} \cup (k + 1)..(count + 3)}

\* the generators whose condition tests each of the atoms once, in order
AtomTests ==
    {<<instruction("LOAD_FAST", 0), instruction("FOR_ITER", start_offset(Len(Atoms) + 4) - 4)>>
        \o <<a, b, c, d>>
        \o <<instruction("JUMP_ABSOLUTE", start_offset(2)), instruction("RETURN_VALUE", 0)>> :
     a \in branches(3, Len(Atoms)), b \in branches(4, Len(Atoms)),
     c \in branches(5, Len(Atoms)), d \in branches(6, Len(Atoms))}

InitAtomTests ==
    /\ pc = "get_expression"
    /\ error = ""
    /\ instructions \in AtomTests
    /\ node = _get_abstract_nodes(instructions).n
    /\ nodes = [k \in 1..Len(instructions) |-> k]
    /\ cond_nodes = <<>>
    /\ true_node = 0
    /\ false_node = 0
    /\ root = 0
    /\ position = 0
    /\ conditional_expr = None
    /\ no_query
    /\ no_cache
    /\ no_pool
    /\ no_ast
    /\ no_block
    /\ no_tx
    /\ no_call

SpecAtomTests == InitAtomTests /\ [][NextCondition]_vars

(***************************************************************************)
(* The truth of a condition, under an assignment v of truth values to the  *)
(* names the conditional jumps test.                                       *)
(***************************************************************************)
Assignments == [{Atoms[i] : i \in 1..Len(Atoms)} -> BOOLEAN]

\* the block control goes to from block k of the code object
successor(instrs, k, v) ==
    IF jump_expr(instrs[k], k) = None \/ v[Atoms[k - 2]]
    THEN node_by_offset(JumpResolver_process(instrs[k], start_offset(k))[1])
    ELSE node_by_offset(JumpResolver_process(instrs[k], start_offset(k))[2])

\* control that leaves block k reaches the loop body, and not the loop head
RECURSIVE reaches_body(_, _, _)
reaches_body(instrs, k, v) ==
    IF k = Len(instrs) - 1 THEN TRUE
    ELSE IF k = 2 THEN FALSE
    ELSE reaches_body(instrs, successor(instrs, k, v), v)

\* the truth of an expression whose members at the positions in T are true
truth_of(expr, v, T) ==
    CASE expr.k = "LocalRef" -> v[expr.n]
      [] expr.k = "Constant" -> expr.n = "True"
      [] expr.k = "Conjunction" -> T = 1..Len(expr.a)
      [] expr.k = "Disjunction" -> T # {}
      [] expr.k = "Negation" -> T = {}
      [] OTHER -> FALSE

RECURSIVE holds(_, _)
holds(expr, v) == truth_of(expr, v, {i \in 1..Len(expr.a) : holds(expr.a[i], v)})

\* _get_condition has returned
condition_done == pc = "done" /\ Len(instructions) > 4

\* C1: the expression _get_condition returns is a Boolean expression that is true
\* under exactly the assignments under which control reaches the loop body
ConditionRefinesGraph ==
    condition_done =>
        /\ None \notin subexpressions(conditional_expr)
        /\ \A v \in Assignments :
               holds(conditional_expr, v) = reaches_body(instructions, 3, v)

(***************************************************************************)
(* query.py: select and the cache of _analyze_expression.  A generator     *)
(* object is its position in `generators`; functools.lru_cache keys an     *)
(* entry by its argument, and generator objects hash and compare by        *)
(* identity.                                                               *)
(***************************************************************************)
MaxGenerators == 2

MaxCalls == 2

\* the source expressions the caller evaluates: what code analysis gives for each,
\* and the entity types of its iterable
SourceExpressions ==
    <<QueryBuilderArgs(<<"Person", "Address">>, <<"p", "a">>, Conjunction(<<j1, w1>>), LocalRef("p")),
      QueryBuilderArgs(<<"Person", "Address">>, <<"p", "a">>, h1, p_x),
      QueryBuilderArgs(<<"Person", "Address">>, <<"p", "a">>, call1("asc", p_x), LocalRef("p"))>>

\* CodeExpressionAnalyzer(sql_generator_expr).get_expression()
CodeExpression(sql_generator_expr) ==
    [local_vars |-> SourceExpressions[generators[sql_generator_expr]].local_vars,
     conditional_expr |-> SourceExpressions[generators[sql_generator_expr]].cond_expr,
     yield_expr |-> SourceExpressions[generators[sql_generator_expr]].yield_expr]

\* the cache holds an entry for the key
cache_hit(key) == \E i \in 1..Len(cache) : cache[i].key = key

\* the value _analyze_expression returns: the cached one on a hit
_analyze_expression(sql_generator_expr) ==
    IF cache_hit(sql_generator_expr)
    THEN cache[CHOOSE i \in 1..Len(cache) : cache[i].key = sql_generator_expr].value
    ELSE CodeExpression(sql_generator_expr)

\* QueryBuilderArgs(source_arg, context, conditional_expr, yield_expr)
_query_builder_args(sql_generator_expr, code_expression) ==
    [types |-> SourceExpressions[generators[sql_generator_expr]].types,
     local_vars |-> code_expression.local_vars,
     closure_vars |-> ClosureVars,
     cond_expr |-> code_expression.conditional_expr,
     yield_expr |-> code_expression.yield_expr]

\* the caller evaluates a generator expression: a new generator object
new_generator ==
    /\ pc = "idle"
    /\ Len(generators) < MaxGenerators
    /\ \E source \in 1..Len(SourceExpressions) : generators' = Append(generators, source)
    /\ UNCHANGED <<pc, error, cache, hits, misses, generator, returned>>
    /\ UNCHANGED <<builder_vars, graph_vars, pool_vars, ast_vars, block_vars, tx_vars, call_vars>>

\* builder.select(qba) is entered
builder_select(args) ==
    /\ qba' = args
    /\ insert_obj' = None
    /\ pc' = "select_validate"
    /\ cond_expr' = None
    /\ entity_joins' = <<>>
    /\ remaining_entities' = <<>>
    /\ joined_entities' = {}
    /\ sql_join_group' = <<>>
    /\ sql_join' = <<>>
    /\ where_expr' = None
    /\ sql_where' = NoText
    /\ having_expr' = None
    /\ sql_having' = NoText
    /\ select_visitor' = _SelectExtractor
    /\ parameters' = {}
    /\ offset' = 0
    /\ error' = ""
    /\ sql' = <<>>

\* select(sql_generator_expr) up to the call of builder.select
query_select ==
    /\ pc = "idle"
    /\ Len(returned) < MaxCalls
    /\ \E g \in 1..Len(generators) :
           /\ generator' = g
           /\ hits' = IF cache_hit(g) THEN hits + 1 ELSE hits
           /\ misses' = IF cache_hit(g) THEN misses ELSE misses + 1
           /\ cache' = IF cache_hit(g) THEN cache
                       ELSE Append(cache, [key |-> g, value |-> CodeExpression(g)])
           /\ builder_select(_query_builder_args(g, _analyze_expression(g)))
    /\ UNCHANGED <<generators, returned>>
    /\ UNCHANGED <<graph_vars, pool_vars, ast_vars, block_vars, tx_vars, call_vars>>

\* select returns Query(sql), or the exception of builder.select leaves it
query_return ==
    /\ pc \in {"done", "failed"}
    /\ generator # 0
    /\ returned' = Append(returned, [generator |-> generator, source |-> generators[generator],
                                     hits |-> hits, misses |-> misses,
                                     sql |-> sql, error |-> error])
    /\ generator' = 0
    /\ pc' = "idle"
    /\ UNCHANGED <<error, generators, cache, hits, misses>>
    /\ UNCHANGED <<builder_vars, graph_vars, pool_vars, ast_vars, block_vars, tx_vars, call_vars>>

InitQuery ==
    /\ pc = "idle"
    /\ error = ""
    /\ no_query
    /\ no_graph
    /\ no_cache
    /\ no_pool
    /\ no_ast
    /\ no_block
    /\ no_tx
    /\ no_call

NextQuery ==
    \/ new_generator
    \/ query_select
    \/ query_return
    \/ select_validate
    \/ select_join
    \/ select_from_first
    \/ select_from_match
    \/ select_from_break
    \/ select_where
    \/ select_having
    \/ select_project
    \/ select_emit

SpecQuery == InitQuery /\ [][NextQuery]_vars

\* the counters of the cache before the call that returned as the i-th
hits_before(i) == IF i = 1 THEN 0 ELSE returned[i - 1].hits

misses_before(i) == IF i = 1 THEN 0 ELSE returned[i - 1].misses

\* C12: a call of select with a generator expression made from the source expression of
\* an earlier call is a cache hit and no miss, and returns what the earlier call returned
SecondCallIsCacheHit ==
    \A i, j \in 1..Len(returned) :
        i < j /\ returned[i].source = returned[j].source =>
            /\ returned[j].hits = hits_before(j) + 1
            /\ returned[j].misses = misses_before(j)
            /\ returned[j].sql = returned[i].sql
            /\ returned[j].error = returned[i].error

\* the join type as seen from the other entity
exchanged(join_type) ==
    CASE join_type = "left_join" -> "right_join"
      [] join_type = "right_join" -> "left_join"
      [] OTHER -> join_type

\* the predicate is one join call on p.x and a.y, in either order
join_of_p_and_a ==
    /\ Dispatcher_get(_join_functions, qba.cond_expr)
    /\ Tail(qba.cond_expr.a) \in {<<p_x, a_y>>, <<a_y, p_x>>}

\* C16: a join recorded between two aliases is found by pop in either argument order
\* and is returned with left_entity the first argument, LEFT and RIGHT and the two
\* columns exchanged when that reverses it; so a join call and the same call with the
\* other join type and the arguments exchanged give the same JOIN fragment
PopOrientsJoin ==
    /\ \A i \in 1..Len(entity_joins) :
          LET j == entity_joins[i].join
              back == pop(entity_joins, j.right_entity, j.left_entity)
          IN  /\ find_join(entity_joins, j.left_entity, j.right_entity) = i
              /\ find_join(entity_joins, j.right_entity, j.left_entity) = i
              /\ pop(entity_joins, j.left_entity, j.right_entity) = j
              /\ j.left_entity # j.right_entity =>
                    /\ back.left_entity = j.right_entity
                    /\ back.left_attr = j.right_attr
                    /\ back.right_entity = j.left_entity
                    /\ back.right_attr = j.left_attr
                    /\ back.join_type = exchanged(j.join_type)
    /\ select_done /\ join_of_p_and_a =>
          LET type == IF qba.cond_expr.a[2] = p_x THEN get_function_name(qba.cond_expr)
                      ELSE exchanged(get_function_name(qba.cond_expr))
          IN  sql_join = <<entity_alias("p")
                           \o as_join(_EntityJoin(type, "p", "x", "a", "y"))>>

\* select returned for the join call whose first argument is the entity joined second:
\* pop reversed the recorded join
ReversedJoinEmitted == select_done /\ qba.cond_expr = j2 /\ sql_join # <<>>

\* C14: for every k of 1..9, a reference to p_k in the WHERE predicate is written $k
\* and the visitor's parameters hold the parameter of ordinal k
ParameterRendersAsPlaceholder ==
    select_done =>
        \A k \in 1..Len(_query_parameters) :
            GlobalRef("p_" \o str(k)) \in subexpressions(where_expr) =>
                /\ \E i \in 1..Len(sql_where.toks) : sql_where.toks[i] = "$" \o str(k)
                /\ \E i \in parameters : _query_parameters[i] = k

(***************************************************************************)
(* Properties of the passes of _get_condition                              *)
(***************************************************************************)
\* the alignment pass has run and its assertion was evaluated
aligned == pc = "true_node" \/ (pc = "failed" /\ error = "AssertionError")

\* C19: after the edge colour alignment pass the incoming edges of every condition node
\* are all true edges or all false edges, and the assertion after the pass does not fail
AlignedOriginsConsistent ==
    aligned /\ cond_nodes # <<>> =>
        /\ pc # "failed"
        /\ \A self \in 1..Len(node) : is_origin_consistent([n |-> node, err |-> ""], self)

\* C18: the folding loop ends on every input graph: a pass folds a span, or the call
\* ends; no pass that folds nothing leaves the loop where the next pass, folding
\* nothing either, puts it back where it was
FoldingLoopEnds ==
    [][pc = "fold" /\ pc' = "fold" /\ nodes' = nodes =>
          ~ (/\ Len(nodes') > 1
             /\ (replacements(nodes))' = {}
             /\ twist([n |-> node', err |-> ""], nodes'[1]).n = node)]_vars

\* C20: when folding starts every edge that enters the true result node is the true
\* edge of its source; where twisting every node once does not make it so, compile
\* fails instead of going on
TrueNodeEdgesAreTrueEdges ==
    [][pc = "sort" /\ pc' = "fold" =>
          \A i \in 1..Len(node'[true_node'].origins) :
              node'[node'[true_node'].origins[i]].on_true = true_node']_vars

\* the positions start .. end - 1 of nodes hold the members of the span
span_members(start, end) == {nodes[i] : i \in start..(end - 1)}

\* C21: a fold of a run of nodes that share on_false makes one Conjunction node of the
\* members' expressions in order, with on_true the last member's on_true and on_false
\* the shared successor; every edge that entered the first member enters the new node,
\* the members keep no outgoing edge, and a conjunction is taken before a disjunction
\* at the same start
ConjunctionFold ==
    [][pc = "fold" /\ Len(nodes) > 1 /\ replacements(nodes) # {}
       /\ is_conjunction(nodes, first_start(nodes)) =>
          LET start == first_start(nodes)
              end == conjunction_end(nodes, start)
              new == Len(node) + 1
          IN  /\ pc' = "fold"
              /\ Len(node') = new
              /\ nodes' = SubSeq(nodes, 1, start - 1) \o <<new>> \o SubSeq(nodes, end, Len(nodes))
              /\ node'[new].expr = Conjunction([i \in 1..(end - start) |-> node[nodes[start + i - 1]].expr])
              /\ node'[new].on_true = node[nodes[end - 1]].on_true
              /\ node'[new].on_false = node[nodes[start]].on_false
              /\ node'[nodes[start]].origins = <<>>
              /\ \A m \in (1..Len(node)) \ span_members(start, end) :
                    /\ node[m].on_true = nodes[start] => node'[m].on_true = new
                    /\ node[m].on_false = nodes[start] => node'[m].on_false = new
              /\ \A m \in span_members(start, end) :
                    node'[m].on_true = 0 /\ node'[m].on_false = 0]_vars

(***************************************************************************)
(* builder.py: _QueryVisitor.visit applied to one expression tree, and the *)
(* text read back by operator precedence.                                  *)
(***************************************************************************)
Leaves == {LocalRef("u"), LocalRef("v")}

InnerLeaves == {LocalRef("w")}

\* the nodes that have the operands `operands`
nodes_over(operands) ==
    {UnaryExpression(cls, e) : cls \in UnaryClasses, e \in operands}
    \cup {Negation(e) : e \in operands}
    \cup {BinaryExpression(cls, l, r) :
            cls \in BinaryClasses \ {"BitwiseLeftShift", "BitwiseRightShift"},
            l \in operands, r \in operands}
    \cup {Comparison(op, l, r) : op \in {"==", "<"}, l \in operands, r \in operands}
    \cup {Conjunction(<<l, r>>) : l \in operands, r \in operands}
    \cup {Disjunction(<<l, r>>) : l \in operands, r \in operands}

ExpressionTrees == nodes_over(Leaves \cup nodes_over(InnerLeaves))

\* expr = self.visit(arg) on a fresh _QueryVisitor, whose stack holds TopLevelExpression()
visit ==
    /\ pc = "visit"
    /\ LET t == _QueryVisitor_visit(where_expr, 0, <<>>)
       IN  IF t.err # ""
           THEN fail(t.err) /\ UNCHANGED <<sql_where, parameters>>
           ELSE /\ sql_where' = t
                /\ parameters' = t.params
                /\ pc' = "done"
                /\ UNCHANGED <<error, sql>>
    /\ UNCHANGED <<graph_vars, cache_vars, pool_vars, ast_vars, block_vars, tx_vars, call_vars>>
    /\ UNCHANGED <<qba, insert_obj, cond_expr, entity_joins, remaining_entities, joined_entities,
                   sql_join_group, sql_join, where_expr, having_expr, sql_having, select_visitor,
                   offset>>

InitVisit ==
    /\ pc = "visit"
    /\ error = ""
    /\ qba = None
    /\ insert_obj = None
    /\ cond_expr = None
    /\ entity_joins = <<>>
    /\ remaining_entities = <<>>
    /\ joined_entities = {}
    /\ sql_join_group = <<>>
    /\ sql_join = <<>>
    /\ where_expr \in ExpressionTrees
    /\ sql_where = NoText
    /\ having_expr = None
    /\ sql_having = NoText
    /\ select_visitor = _SelectExtractor
    /\ parameters = {}
    /\ offset = 0
    /\ sql = <<>>
    /\ no_graph
    /\ no_cache
    /\ no_pool
    /\ no_ast
    /\ no_block
    /\ no_tx
    /\ no_call

NextVisit == visit

SpecVisit == InitVisit /\ [][NextVisit]_vars

\* The reader of the text: operands, prefix and binary operators with the precedence of
\* their node classes, binary operators of one precedence grouping from the left.
\* An operator on the operator stack: [k: class, n: operator, p: precedence, prefix].
prefix_operator(tok) ==
    CASE tok = "+" -> [k |-> "UnaryPlus", n |-> "", p |-> 11, prefix |-> TRUE]
      [] tok = "-" -> [k |-> "UnaryMinus", n |-> "", p |-> 11, prefix |-> TRUE]
      [] tok = "~" -> [k |-> "BitwiseNot", n |-> "", p |-> 11, prefix |-> TRUE]
      [] tok = "NOT" -> [k |-> "Negation", n |-> "", p |-> 3, prefix |-> TRUE]
      [] OTHER -> [k |-> "", n |-> "", p |-> 0, prefix |-> TRUE]

binary_operator(tok) ==
    CASE tok = "^" -> [k |-> "Exponentiation", n |-> "", p |-> 12, prefix |-> FALSE]
      [] tok = "*" -> [k |-> "Multiplication", n |-> "", p |-> 10, prefix |-> FALSE]
      [] tok = "/" -> [k |-> "Division", n |-> "", p |-> 10, prefix |-> FALSE]
      [] tok = "+" -> [k |-> "Addition", n |-> "", p |-> 9, prefix |-> FALSE]
      [] tok = "-" -> [k |-> "Subtraction", n |-> "", p |-> 9, prefix |-> FALSE]
      [] tok = "&" -> [k |-> "BitwiseAnd", n |-> "", p |-> 7, prefix |-> FALSE]
      [] tok = "#" -> [k |-> "BitwiseXor", n |-> "", p |-> 6, prefix |-> FALSE]
      [] tok = "|" -> [k |-> "BitwiseOr", n |-> "", p |-> 5, prefix |-> FALSE]
      [] tok = "=" -> [k |-> "Comparison", n |-> "==", p |-> 4, prefix |-> FALSE]
      [] tok = "<>" -> [k |-> "Comparison", n |-> "!=", p |-> 4, prefix |-> FALSE]
      [] tok \in {"<", "<=", ">=", ">"} -> [k |-> "Comparison", n |-> tok, p |-> 4, prefix |-> FALSE]
      [] tok = "AND" -> [k |-> "Conjunction", n |-> "", p |-> 2, prefix |-> FALSE]
      [] tok = "OR" -> [k |-> "Disjunction", n |-> "", p |-> 1, prefix |-> FALSE]
      [] OTHER -> [k |-> "", n |-> "", p |-> 0, prefix |-> FALSE]

open_parenthesis == [k |-> "(", n |-> "", p |-> 0, prefix |-> TRUE]

\* the reader before the first token: the operands read [tree, closed: it stood in
\* parentheses], the operators not yet applied, and whether an operand comes next
reader == [ok |-> TRUE, out |-> <<>>, ops |-> <<>>, operand |-> TRUE]

but_last(s) == SubSeq(s, 1, Len(s) - 1)

last(s) == s[Len(s)]

\* the node of the binary operator op with the operands l and r; a chain of AND or of OR
\* that is not broken by parentheses is one node
binary_node(op, l, r) ==
    IF op.k \in BooleanClasses /\ l.tree.k = op.k /\ ~ l.closed
    THEN [k |-> op.k, n |-> "", a |-> l.tree.a \o <<r.tree>>]
    ELSE [k |-> op.k, n |-> op.n, a |-> <<l.tree, r.tree>>]

\* the operator on top of the operator stack applied to the operands on top
apply_operator(st) ==
    IF last(st.ops).prefix
    THEN [st EXCEPT !.ops = but_last(st.ops),
                    !.out = but_last(st.out)
                            \o <<[tree |-> [k |-> last(st.ops).k, n |-> "", a |-> <<last(st.out).tree>>],
                                  closed |-> FALSE]>>]
    ELSE [st EXCEPT !.ops = but_last(st.ops),
                    !.out = SubSeq(st.out, 1, Len(st.out) - 2)
                            \o <<[tree |-> binary_node(last(st.ops), st.out[Len(st.out) - 1],
                                                       last(st.out)),
                                  closed |-> FALSE]>>]

RECURSIVE apply_operators(_, _)
\* every operator on top of the stack that binds at least as tightly as p is applied
apply_operators(st, p) ==
    IF st.ops = <<>> \/ last(st.ops).k = "(" \/ last(st.ops).p < p THEN st
    ELSE apply_operators(apply_operator(st), p)

\* the reader after the token tok
read_token(st, tok) ==
    IF ~ st.ok THEN st
    ELSE IF st.operand
    THEN IF tok = "(" THEN [st EXCEPT !.ops = @ \o <<open_parenthesis>>]
         ELSE IF prefix_operator(tok).k # "" THEN [st EXCEPT !.ops = @ \o <<prefix_operator(tok)>>]
         ELSE IF tok = ")" \/ binary_operator(tok).k # "" THEN [st EXCEPT !.ok = FALSE]
         ELSE [st EXCEPT !.out = @ \o <<[tree |-> LocalRef(tok), closed |-> FALSE]>>,
                         !.operand = FALSE]
    ELSE IF tok = ")"
    THEN LET s == apply_operators(st, 0)
         IN  IF s.ops = <<>> THEN [st EXCEPT !.ok = FALSE]
             ELSE [s EXCEPT !.ops = but_last(s.ops),
                            !.out = but_last(s.out) \o <<[last(s.out) EXCEPT !.closed = TRUE]>>]
    ELSE IF binary_operator(tok).k # ""
    THEN [apply_operators(st, binary_operator(tok).p)
             EXCEPT !.ops = @ \o <<binary_operator(tok)>>, !.operand = TRUE]
    ELSE [st EXCEPT !.ok = FALSE]

RECURSIVE read_tokens(_, _)
read_tokens(st, toks) ==
    IF toks = <<>> THEN st
    ELSE read_tokens(read_token(st, Head(toks)), Tail(toks))

\* the tree the text toks stands for, None if it is no expression
parse_expression(toks) ==
    LET st == read_tokens(reader, toks)
        s == IF st.ok /\ ~ st.operand THEN apply_operators(st, 0) ELSE st
    IN  IF s.ok /\ ~ s.operand /\ s.ops = <<>> /\ Len(s.out) = 1 THEN s.out[1].tree ELSE None

\* the positions i < j of toks that hold a pair of parentheses
parentheses(toks) ==
    {ij \in (1..Len(toks)) \X (1..Len(toks)) :
        /\ ij[1] < ij[2]
        /\ toks[ij[1]] = "("
        /\ toks[ij[2]] = ")"
        /\ \A m \in ij[1]..ij[2] :
              LET opened == Cardinality({x \in ij[1]..m : toks[x] = "("})
                  closed == Cardinality({x \in ij[1]..m : toks[x] = ")"})
              IN  IF m = ij[2] THEN opened = closed ELSE opened > closed}

\* toks without the tokens at the positions i and j
without(toks, i, j) == SubSeq(toks, 1, i - 1) \o SubSeq(toks, i + 1, j - 1) \o SubSeq(toks, j + 1, Len(toks))

visit_done == pc = "done" /\ qba = None /\ where_expr # None /\ no_graph /\ no_cache

\* C13: the text of every tree of unary, binary, comparison, negation, conjunction and
\* disjunction nodes reads back as the same tree, and no pair of parentheses in it can
\* be left out without changing the tree it reads back as
TextReadsBackAsTree ==
    visit_done =>
        /\ parse_expression(sql_where.toks) = where_expr
        /\ \A ij \in parentheses(sql_where.toks) :
              parse_expression(without(sql_where.toks, ij[1], ij[2])) # where_expr

(***************************************************************************)
(* ast.py: negate(), called twice in a row on one node.                    *)
(***************************************************************************)
\* negate_op with the pair ("<", ">=") written as ("<", ">")
negate_op_strict(op) ==
    CASE op = "==" -> "!="
      [] op = "!=" -> "=="
      [] op = "<" -> ">"
      [] op = "<=" -> ">"
      [] op = ">" -> "<="
      [] op = "in" -> "not in"
      [] op = "not in" -> "in"
      [] op = "is" -> "is not"
      [] op = "is not" -> "is"
      [] OTHER -> ""

\* Comparison.negate_op, "" for an operator that is no key of it
negate_op(op) ==
    CASE op = "==" -> "!="
      [] op = "!=" -> "=="
      [] op = "<" -> ">="
      [] op = ">=" -> "<"
      [] op = "<=" -> ">"
      [] op = ">" -> "<="
      [] op = "in" -> "not in"
      [] op = "not in" -> "in"
      [] op = "is" -> "is not"
      [] op = "is not" -> "is"
      [] OTHER -> ""

\* the exception a call raised, in the place of the value it would have returned
Raised(err) == [k |-> "raise", n |-> err, a |-> <<>>]

\* x.negate(): only Constant, FunctionCall, Comparison and Negation define it
negate(x) ==
    CASE x.k = "Constant" ->
            IF x.n = "True" THEN Constant("False")
            ELSE IF x.n = "False" THEN Constant("True")
            ELSE Raised("TypeError")
      [] x.k = "FunctionCall" -> Negation(x)
      [] x.k = "Comparison" ->
            IF negate_op(x.n) = "" THEN Raised("KeyError")
            ELSE Comparison(negate_op(x.n), x.a[1], x.a[2])
      [] x.k = "Negation" -> x.a[1]
      [] OTHER -> Raised("AttributeError")

\* the call of negate() on the node, or on the value of the call before
negate_call ==
    /\ pc \in {"negate", "negate_again"}
    /\ LET x == IF negations = <<>> THEN operand ELSE negations[Len(negations)]
       IN  IF negate(x).k = "raise"
           THEN /\ pc' = "failed"
                /\ error' = negate(x).n
                /\ UNCHANGED negations
           ELSE /\ negations' = Append(negations, negate(x))
                /\ pc' = IF pc = "negate" THEN "negate_again" ELSE "done"
                /\ UNCHANGED error
    /\ UNCHANGED operand
    /\ UNCHANGED <<builder_vars, graph_vars, cache_vars, pool_vars, block_vars, tx_vars, call_vars>>

ComparisonOperators == {"==", "!=", "<", ">=", "<=", ">", "in", "not in", "is", "is not"}

\* what a Comparison compares and a Negation wraps
Wrapped ==
    {p_x, LocalRef("p"), Constant("True"), Constant("False"), Constant("1"), call1("min", p_x),
     w1, Negation(w1), Negation(call1("min", p_x)), Conjunction(<<w1, w2>>), Disjunction(<<w1, w2>>)}

Negatables ==
    {Comparison(op, l, r) : op \in ComparisonOperators, l \in Wrapped, r \in {p_x, Constant("1")}}
    \cup {Negation(e) : e \in Wrapped}

InitNegate ==
    /\ pc = "negate"
    /\ error = ""
    /\ operand \in Negatables
    /\ negations = <<>>
    /\ no_query
    /\ no_graph
    /\ no_cache
    /\ no_pool
    /\ no_block
    /\ no_tx
    /\ no_call

NextNegate == negate_call

SpecNegate == InitNegate /\ [][NextNegate]_vars

negate_returned == operand # None /\ pc \in {"done", "failed"} /\ no_query /\ no_graph

\* C15: for every Comparison and Negation node x, whatever it wraps, x.negate().negate()
\* is defined and is a node equal to x
NegateTwiceIsIdentity ==
    negate_returned =>
        /\ pc = "done"
        /\ negations[Len(negations)] = operand

\* C15, amended: for every Comparison node x, x.negate().negate() is defined and is a node
\* equal to x; for a Negation node x, x.negate() is the wrapped node e, and
\* x.negate().negate(), where it is defined, equals x exactly when e is a FunctionCall
NegateTwiceOfComparisonIsIdentity ==
    negate_returned =>
        /\ operand.k = "Comparison" => pc = "done" /\ negations[Len(negations)] = operand
        /\ operand.k = "Negation" =>
              /\ negations[1] = operand.a[1]
              /\ pc = "done" =>
                    (negations[Len(negations)] = operand <=> operand.a[1].k = "FunctionCall")

\* a Comparison was negated twice: the first value differs from it, the second equals it
ComparisonNegatedTwice ==
    /\ negate_returned
    /\ pc = "done"
    /\ operand.k = "Comparison"
    /\ negations[1] # operand
    /\ negations[Len(negations)] = operand

(***************************************************************************)
(* async_database.py: the pools shared in one asynchronous execution       *)
(* context. A coroutine runs without interruption from one await that       *)
(* suspends it to the next; _create_pool suspends, the dictionary           *)
(* operations do not.                                                       *)
(***************************************************************************)
MaxCoroutines == 3

\* the values of ConnectionParameters the calls are made with
Parameters == {"default", "other"}

\* dict.get(key, None): 0 stands for None
dict_get(d, key) ==
    IF \E i \in 1..Len(d) : d[i].key = key
    THEN d[CHOOSE i \in 1..Len(d) : d[i].key = key].value
    ELSE 0

\* d[key] = value
dict_set(d, key, value) ==
    IF \E i \in 1..Len(d) : d[i].key = key
    THEN [i \in 1..Len(d) |-> IF d[i].key = key THEN [key |-> key, value |-> value] ELSE d[i]]
    ELSE Append(d, [key |-> key, value |-> value])

\* d.pop(key, None)
dict_pop(d, key) == SelectSeq(d, LAMBDA item : item.key # key)

\* shared_pool(params) up to its first suspension: get_or_create returns the pool the
\* dictionary holds, or waits for _create_pool
shared_pool(params) ==
    /\ Len(coroutines) < MaxCoroutines
    /\ coroutines' = Append(coroutines,
                            IF dict_get(_shared_pool, params) # 0
                            THEN [at |-> "returned", params |-> params,
                                  pool |-> dict_get(_shared_pool, params)]
                            ELSE [at |-> "_create_pool", params |-> params, pool |-> 0])
    /\ UNCHANGED <<_shared_pool, pools>>
    /\ UNCHANGED <<pc, error, builder_vars, graph_vars, cache_vars, ast_vars, block_vars, tx_vars, call_vars>>

\* _create_pool has returned: SharedDatabasePool.__init__ stores the new pool under
\* params, and get_or_create returns it
get_or_create_resume(c) ==
    /\ coroutines[c].at = "_create_pool"
    /\ pools' = Append(pools, [params |-> coroutines[c].params, released |-> FALSE, deleted |-> FALSE])
    /\ _shared_pool' = dict_set(_shared_pool, coroutines[c].params, Len(pools) + 1)
    /\ coroutines' = [coroutines EXCEPT ![c].at = "returned", ![c].pool = Len(pools) + 1]
    /\ UNCHANGED <<pc, error, builder_vars, graph_vars, cache_vars, ast_vars, block_vars, tx_vars, call_vars>>

\* SharedDatabasePool.release, called by a coroutine on the pool it was given
release(c) ==
    /\ coroutines[c].at = "returned"
    /\ ~ pools[coroutines[c].pool].released
    /\ _shared_pool' = dict_pop(_shared_pool, pools[coroutines[c].pool].params)
    /\ pools' = [pools EXCEPT ![coroutines[c].pool].released = TRUE]
    /\ UNCHANGED coroutines
    /\ UNCHANGED <<pc, error, builder_vars, graph_vars, cache_vars, ast_vars, block_vars, tx_vars, call_vars>>

\* the coroutine ends and its reference to the pool is gone
coroutine_return(c) ==
    /\ coroutines[c].at = "returned"
    /\ coroutines' = [coroutines EXCEPT ![c].at = "ended"]
    /\ UNCHANGED <<_shared_pool, pools>>
    /\ UNCHANGED <<pc, error, builder_vars, graph_vars, cache_vars, ast_vars, block_vars, tx_vars, call_vars>>

\* the pool is referenced by the dictionary or by a coroutine that has not ended
referenced(p) ==
    \/ \E i \in 1..Len(_shared_pool) : _shared_pool[i].value = p
    \/ \E c \in 1..Len(coroutines) : coroutines[c].at = "returned" /\ coroutines[c].pool = p

\* SharedDatabasePool.__del__, run when the last reference to the pool is gone
SharedDatabasePool_del(p) ==
    /\ ~ pools[p].deleted
    /\ ~ referenced(p)
    /\ _shared_pool' = dict_pop(_shared_pool, pools[p].params)
    /\ pools' = [pools EXCEPT ![p].deleted = TRUE]
    /\ UNCHANGED coroutines
    /\ UNCHANGED <<pc, error, builder_vars, graph_vars, cache_vars, ast_vars, block_vars, tx_vars, call_vars>>

InitPool ==
    /\ pc = "idle"
    /\ error = ""
    /\ _shared_pool = <<>>
    /\ pools = <<>>
    /\ coroutines = <<>>
    /\ no_query
    /\ no_graph
    /\ no_cache
    /\ no_ast
    /\ no_block
    /\ no_tx
    /\ no_call

NextPool ==
    \/ \E params \in Parameters : shared_pool(params)
    \/ \E c \in 1..Len(coroutines) : get_or_create_resume(c)
    \/ \E c \in 1..Len(coroutines) : release(c)
    \/ \E c \in 1..Len(coroutines) : coroutine_return(c)
    \/ \E p \in 1..Len(pools) : SharedDatabasePool_del(p)

SpecPool == InitPool /\ [][NextPool]_vars

\* C17: at most one pool is created per ConnectionParameters: two pools made for the
\* same parameters never exist unreleased together, also when several coroutines call
\* shared_pool while the first pool is being created, and two calls that returned
\* pools not released since returned the same pool
OnePoolPerParameters ==
    /\ \A p, q \in 1..Len(pools) :
          p # q /\ pools[p].params = pools[q].params => pools[p].released \/ pools[q].released
    /\ \A c, d \in 1..Len(coroutines) :
          /\ coroutines[c].params = coroutines[d].params
          /\ coroutines[c].pool # 0 /\ coroutines[d].pool # 0
          /\ ~ pools[coroutines[c].pool].released /\ ~ pools[coroutines[d].pool].released
          => coroutines[c].pool = coroutines[d].pool

Init == InitSelect

Next == NextSelect

Spec == Init /\ [][Next]_vars

(***************************************************************************)
(* decompiler.py: _get_basic_blocks, on the instructions of a code object. *)
(* The instruction at place i (from 1) has the offset 2 * (i - 1).         *)
(***************************************************************************)
\* the most instructions a code object has
MaxInstructions == 4

\* JumpResolver.test without the method FOR_ITER
JumpResolver_test_no_FOR_ITER(instr) ==
    instr.opname \in {"JUMP_ABSOLUTE", "JUMP_FORWARD", "JUMP_IF_FALSE_OR_POP", "JUMP_IF_TRUE_OR_POP",
                      "POP_JUMP_IF_FALSE", "POP_JUMP_IF_TRUE", "RETURN_VALUE"}

\* JumpResolver.test: JumpResolver has a method of the name
JumpResolver_test(instr) ==
    instr.opname \in {"JUMP_ABSOLUTE", "JUMP_FORWARD", "JUMP_IF_FALSE_OR_POP", "JUMP_IF_TRUE_OR_POP",
                      "POP_JUMP_IF_FALSE", "POP_JUMP_IF_TRUE", "FOR_ITER", "RETURN_VALUE"}

\* the offset the instruction at place i jumps or branches to, -1 if it does neither
label(instrs, i) ==
    IF instrs[i].opname \in {"JUMP_FORWARD", "FOR_ITER"}
    THEN start_offset(i) + 2 + instrs[i].arg
    ELSE IF instrs[i].opname \in {"JUMP_ABSOLUTE", "JUMP_IF_FALSE_OR_POP", "JUMP_IF_TRUE_OR_POP",
                                  "POP_JUMP_IF_FALSE", "POP_JUMP_IF_TRUE"}
    THEN instrs[i].arg
    ELSE -1

\* dis.Instruction.is_jump_target of the instruction at place i
is_jump_target(instrs, i) == \E k \in 1..Len(instrs) : label(instrs, k) = start_offset(i)

_BasicBlockSpan(offset_of_start, start_index, end_index) ==
    [start_offset |-> offset_of_start, start_index |-> start_index, end_index |-> end_index]

\* jmp = JumpResolver(); blocks = []; block = _BasicBlockSpan(start_index=0, start_offset=0)
get_basic_blocks_begin ==
    /\ pc = "get_basic_blocks"
    /\ blocks' = <<>>
    /\ block' = _BasicBlockSpan(0, 0, -1)
    /\ prev_index' = 0
    /\ pc' = "pairwise"
    /\ UNCHANGED <<code, lists, stack, self_stack, _on_true, _on_false, _jump_expr, _yield_expr,
                   _return_expr, block_expr, error>>
    /\ UNCHANGED <<builder_vars, graph_vars, cache_vars, pool_vars, ast_vars, tx_vars, call_vars>>

\* one turn of the loop over pairwise(instructions): prev_instr is at place prev_index + 1
get_basic_blocks_pair ==
    /\ pc = "pairwise"
    /\ prev_index + 1 < Len(code)
    /\ LET next_index == prev_index + 1
       IN  /\ IF is_jump_target(code, next_index + 1) \/ JumpResolver_test(code[prev_index + 1])
              THEN /\ blocks' = Append(blocks, [block EXCEPT !.end_index = next_index])
                   /\ block' = _BasicBlockSpan(start_offset(next_index + 1), next_index, -1)
              ELSE UNCHANGED <<blocks, block>>
           /\ prev_index' = next_index
    /\ UNCHANGED <<code, lists, stack, self_stack, _on_true, _on_false, _jump_expr, _yield_expr,
                   _return_expr, block_expr, pc, error>>
    /\ UNCHANGED <<builder_vars, graph_vars, cache_vars, pool_vars, ast_vars, tx_vars, call_vars>>

\* block.end_index = len(instructions); blocks.append(block); return blocks
get_basic_blocks_return ==
    /\ pc = "pairwise"
    /\ prev_index + 1 >= Len(code)
    /\ blocks' = Append(blocks, [block EXCEPT !.end_index = Len(code)])
    /\ block' = [block EXCEPT !.end_index = Len(code)]
    /\ pc' = "done"
    /\ UNCHANGED <<code, prev_index, lists, stack, self_stack, _on_true, _on_false, _jump_expr,
                   _yield_expr, _return_expr, block_expr, error>>
    /\ UNCHANGED <<builder_vars, graph_vars, cache_vars, pool_vars, ast_vars, tx_vars, call_vars>>

\* the instructions that can stand at place i of n: loads, and jumps and branches
\* to an instruction of the code object
instructions_at(i, n) ==
    {instruction("LOAD_FAST", 0)}
    \cup {instruction("POP_JUMP_IF_FALSE", start_offset(t)) : t \in 1..n}
    \cup {instruction(op, start_offset(t) - start_offset(i) - 2) :
            op \in {"JUMP_FORWARD", "FOR_ITER"}, t \in (i + 1)..n}

\* the code objects: instructions that end with RETURN_VALUE
InstructionLists ==
    UNION {{instrs \o <<instruction("RETURN_VALUE", 0)>> :
               instrs \in {l \in [1..(n - 1) -> UNION {instructions_at(i, n) : i \in 1..n}] :
                              \A i \in 1..(n - 1) : l[i] \in instructions_at(i, n)}} :
           n \in 1..MaxInstructions}

InitBlocks ==
    /\ pc = "get_basic_blocks"
    /\ error = ""
    /\ code \in InstructionLists
    /\ blocks = <<>>
    /\ block = None
    /\ prev_index = 0
    /\ lists = <<>>
    /\ stack = 0
    /\ self_stack = 0
    /\ _on_true = 0
    /\ _on_false = 0
    /\ _jump_expr = None
    /\ _yield_expr = None
    /\ _return_expr = None
    /\ block_expr = None
    /\ no_query
    /\ no_graph
    /\ no_cache
    /\ no_pool
    /\ no_ast
    /\ no_tx
    /\ no_call

NextBlocks ==
    \/ get_basic_blocks_begin
    \/ get_basic_blocks_pair
    \/ get_basic_blocks_return

SpecBlocks == InitBlocks /\ [][NextBlocks]_vars

\* the places (from 0) where one block ends and the next begins
boundaries == {blocks[n].end_index : n \in 1..(Len(blocks) - 1)}

\* C25: the blocks returned are non-empty index ranges that follow one another from 0 to
\* the number of instructions, and a block ends at k exactly when the instruction at index k
\* is a jump target or the instruction before it jumps or branches
BlocksPartitionInstructions ==
    pc = "done" /\ code # <<>> =>
        /\ blocks # <<>>
        /\ blocks[1].start_index = 0
        /\ blocks[Len(blocks)].end_index = Len(code)
        /\ \A n \in 1..Len(blocks) :
              /\ blocks[n].start_index < blocks[n].end_index
              /\ blocks[n].start_offset = start_offset(blocks[n].start_index + 1)
              /\ n < Len(blocks) => blocks[n].end_index = blocks[n + 1].start_index
        /\ boundaries = {k \in 1..(Len(code) - 1) :
                            is_jump_target(code, k + 1) \/ label(code, k) # -1}

\* blocks are returned, one ended by a branch and one ended before a jump target
\* that no jump or branch precedes
BlocksEndAtBranchAndTarget ==
    /\ pc = "done" /\ code # <<>>
    /\ \E k \in boundaries : label(code, k) # -1 /\ ~ is_jump_target(code, k + 1)
    /\ \E k \in boundaries : label(code, k) = -1 /\ is_jump_target(code, k + 1)

(***************************************************************************)
(* decompiler.py: _Disassembler.process_block. A stack is a Python list:   *)
(* `lists` holds the list objects, and a variable that holds a stack holds *)
(* the place of its list object, 0 for None.                               *)
(***************************************************************************)
_IteratorValue == [k |-> "_IteratorValue", n |-> "", a |-> <<>>]

\* a second name for the same list object, where list.copy() makes a new one
list_alias(ls, ref) == [lists |-> ls, ref |-> ref]

\* list.copy(): [lists: the list objects afterwards, ref: the place of the new one]
list_copy(ls, ref) == [lists |-> Append(ls, ls[ref]), ref |-> Len(ls) + 1]

\* the state of the _Disassembler while it replays a block
disassembler ==
    [lists |-> lists, on_true |-> _on_true, on_false |-> _on_false, jump_expr |-> _jump_expr,
     yield_expr |-> _yield_expr, return_expr |-> _return_expr, err |-> ""]

\* self.stack of a _Disassembler state
stack_of(d) == d.lists[self_stack]

\* self.stack.append(value)
push(d, value) == [d EXCEPT !.lists[self_stack] = Append(@, value)]

\* self.stack.pop(), the value popped being last(stack_of(d)): IndexError on an empty list
pop_top(d) ==
    IF stack_of(d) = <<>> THEN [d EXCEPT !.err = "IndexError"]
    ELSE [d EXCEPT !.lists[self_stack] = but_last(@)]

\* right = self.stack.pop(); left = self.stack.pop(); self.stack.append(Comparison(op, left, right))
_compare_op(d, op) ==
    IF Len(stack_of(d)) < 2 THEN pop_top(pop_top(d))
    ELSE push(pop_top(pop_top(d)),
              Comparison(op, stack_of(d)[Len(stack_of(d)) - 1], last(stack_of(d))))

\* self.stack.append(self.stack[-1])
DUP_TOP(d) ==
    IF stack_of(d) = <<>> THEN [d EXCEPT !.err = "IndexError"] ELSE push(d, last(stack_of(d)))

\* self._jump_expr = self.stack.pop(); both successor stacks are copies of what is left
_pop_jump(d) ==
    IF stack_of(d) = <<>> THEN [d EXCEPT !.err = "IndexError"]
    ELSE LET popped == [pop_top(d) EXCEPT !.jump_expr = last(stack_of(d))]
             on_true == list_copy(popped.lists, self_stack)
             on_false == list_copy(on_true.lists, self_stack)
         IN  [popped EXCEPT !.lists = on_false.lists, !.on_true = on_true.ref, !.on_false = on_false.ref]

\* the successor stack `kept` is copied before the pop, the other one after it
_jump_or_pop(d, kept) ==
    LET before == list_copy(d.lists, self_stack)
        copied == [d EXCEPT !.lists = before.lists]
    IN  IF stack_of(d) = <<>>
        THEN [copied EXCEPT ![kept] = before.ref, !.err = "IndexError"]
        ELSE LET popped == [pop_top(copied) EXCEPT !.jump_expr = last(stack_of(d))]
                 after == list_copy(popped.lists, self_stack)
             IN  [popped EXCEPT !.lists = after.lists, ![kept] = before.ref,
                                ![IF kept = "on_true" THEN "on_false" ELSE "on_true"] = after.ref]

JUMP_IF_FALSE_OR_POP(d) == _jump_or_pop(d, "on_false")

JUMP_IF_TRUE_OR_POP(d) == _jump_or_pop(d, "on_true")

\* self._on_false = self.stack.copy(); self.stack.append(_IteratorValue());
\* self._on_true = self.stack.copy()
FOR_ITER(d) ==
    LET on_false == list_copy(d.lists, self_stack)
        pushed == push([d EXCEPT !.lists = on_false.lists], _IteratorValue)
        on_true == list_copy(pushed.lists, self_stack)
    IN  [pushed EXCEPT !.lists = on_true.lists, !.on_true = on_true.ref, !.on_false = on_false.ref]

\* fn = getattr(self, instruction.opname); fn(instruction.arg)
replay(d, instr) ==
    CASE instr.opname = "LOAD_FAST" -> push(d, LocalRef("x"))
      [] instr.opname = "COMPARE_OP" -> _compare_op(d, "<")
      [] instr.opname = "DUP_TOP" -> DUP_TOP(d)
      [] instr.opname = "POP_TOP" -> pop_top(d)
      [] instr.opname = "JUMP_ABSOLUTE" -> d
      [] instr.opname \in {"POP_JUMP_IF_FALSE", "POP_JUMP_IF_TRUE"} -> _pop_jump(d)
      [] instr.opname = "JUMP_IF_FALSE_OR_POP" -> JUMP_IF_FALSE_OR_POP(d)
      [] instr.opname = "JUMP_IF_TRUE_OR_POP" -> JUMP_IF_TRUE_OR_POP(d)
      [] instr.opname = "FOR_ITER" -> FOR_ITER(d)
      [] instr.opname = "YIELD_VALUE" ->
            IF stack_of(d) = <<>> THEN pop_top(d)
            ELSE [pop_top(d) EXCEPT !.yield_expr = last(stack_of(d))]
      [] instr.opname = "RETURN_VALUE" ->
            IF stack_of(d) = <<>> THEN pop_top(d)
            ELSE [pop_top(d) EXCEPT !.return_expr = last(stack_of(d))]
      [] OTHER -> [d EXCEPT !.err = "AttributeError"]

\* self.stack = stack.copy(); self._reset()
process_block_begin ==
    /\ pc = "process_block"
    /\ lists' = list_copy(lists, stack).lists
    /\ self_stack' = list_copy(lists, stack).ref
    /\ _on_true' = 0
    /\ _on_false' = 0
    /\ _jump_expr' = None
    /\ _yield_expr' = None
    /\ _return_expr' = None
    /\ prev_index' = 0
    /\ pc' = "replay"
    /\ UNCHANGED <<code, blocks, block, stack, block_expr, error>>
    /\ UNCHANGED <<builder_vars, graph_vars, cache_vars, pool_vars, ast_vars, tx_vars, call_vars>>

\* one turn of "for instruction in instructions"
process_block_instruction ==
    /\ pc = "replay"
    /\ prev_index < Len(code)
    /\ LET d == replay(disassembler, code[prev_index + 1])
       IN  /\ lists' = d.lists
           /\ _on_true' = d.on_true
           /\ _on_false' = d.on_false
           /\ _jump_expr' = d.jump_expr
           /\ _yield_expr' = d.yield_expr
           /\ _return_expr' = d.return_expr
           /\ error' = d.err
           /\ pc' = IF d.err # "" THEN "failed" ELSE "replay"
    /\ prev_index' = prev_index + 1
    /\ UNCHANGED <<code, blocks, block, stack, self_stack, block_expr>>
    /\ UNCHANGED <<builder_vars, graph_vars, cache_vars, pool_vars, ast_vars, tx_vars, call_vars>>

\* handle fall-through; result = _BasicBlockExpr(...); self._reset(); return result
process_block_return ==
    /\ pc = "replay"
    /\ prev_index = Len(code)
    /\ LET on_true == IF _on_true = 0 THEN list_copy(lists, self_stack)
                      ELSE [lists |-> lists, ref |-> _on_true]
           on_false == IF _on_false = 0 THEN list_copy(on_true.lists, self_stack)
                       ELSE [lists |-> on_true.lists, ref |-> _on_false]
       IN  /\ lists' = on_false.lists
           /\ block_expr' = [on_true |-> on_true.ref, on_false |-> on_false.ref,
                             jump_expr |-> _jump_expr, yield_expr |-> _yield_expr,
                             return_expr |-> _return_expr]
    /\ _on_true' = 0
    /\ _on_false' = 0
    /\ _jump_expr' = None
    /\ _yield_expr' = None
    /\ _return_expr' = None
    /\ pc' = "done"
    /\ UNCHANGED <<code, blocks, block, prev_index, stack, self_stack, error>>
    /\ UNCHANGED <<builder_vars, graph_vars, cache_vars, pool_vars, ast_vars, tx_vars, call_vars>>

\* the instructions a block can end in
BlockEnds ==
    {"JUMP_ABSOLUTE", "POP_JUMP_IF_FALSE", "POP_JUMP_IF_TRUE", "JUMP_IF_FALSE_OR_POP",
     "JUMP_IF_TRUE_OR_POP", "FOR_ITER", "YIELD_VALUE", "RETURN_VALUE"}

\* the blocks: instructions that work on the stack, and then at most one that ends a block
Blocks ==
    LET inner == UNION {[1..n -> {"LOAD_FAST", "COMPARE_OP", "DUP_TOP", "POP_TOP"}] :
                           n \in 0..(MaxInstructions - 1)}
    IN  {[i \in 1..Len(ops) |-> instruction(ops[i], 0)] :
            ops \in inner \cup {l \o <<op>> : l \in inner, op \in BlockEnds}}

\* the stacks a block is entered with
Stacks == {<<>>, <<_IteratorValue>>, <<LocalRef("z"), Constant("1")>>}

InitProcessBlock ==
    /\ pc = "process_block"
    /\ error = ""
    /\ code \in Blocks
    /\ blocks = <<>>
    /\ block = None
    /\ prev_index = 0
    /\ \E s \in Stacks : lists = <<s>>
    /\ stack = 1
    /\ self_stack = 0
    /\ _on_true = 0
    /\ _on_false = 0
    /\ _jump_expr = None
    /\ _yield_expr = None
    /\ _return_expr = None
    /\ block_expr = None
    /\ no_query
    /\ no_graph
    /\ no_cache
    /\ no_pool
    /\ no_ast
    /\ no_tx
    /\ no_call

NextProcessBlock ==
    \/ process_block_begin
    \/ process_block_instruction
    \/ process_block_return

SpecProcessBlock == InitProcessBlock /\ [][NextProcessBlock]_vars

\* the opname of the last instruction of the block, "" for an empty block
last_opname == IF code = <<>> THEN "" ELSE code[Len(code)].opname

ConditionalBranches ==
    {"POP_JUMP_IF_FALSE", "POP_JUMP_IF_TRUE", "JUMP_IF_FALSE_OR_POP", "JUMP_IF_TRUE_OR_POP"}

\* C26: no step of process_block changes the caller's stack; process_block returns, with
\* tested the top of the stack the conditional branch meets and rest the stack below it:
\* jump_expr = tested; on_true = on_false = rest for POP_JUMP_IF_TRUE and POP_JUMP_IF_FALSE;
\* on_false = rest with tested on top and on_true = rest for JUMP_IF_FALSE_OR_POP, the other
\* way round for JUMP_IF_TRUE_OR_POP; and on_true = on_false for a block without a branch
ProcessBlockSuccessorStacks ==
    [][/\ stack # 0 => stack' = stack /\ lists'[stack] = lists[stack]
       /\ pc = "replay" /\ pc' = "done" /\ last_opname \in ConditionalBranches =>
              LET rest == lists[self_stack]
                  r == block_expr'
              IN  /\ r.jump_expr # None
                  /\ lists'[r.on_true] =
                        IF last_opname = "JUMP_IF_TRUE_OR_POP" THEN Append(rest, r.jump_expr) ELSE rest
                  /\ lists'[r.on_false] =
                        IF last_opname = "JUMP_IF_FALSE_OR_POP" THEN Append(rest, r.jump_expr) ELSE rest
       /\ pc = "replay" /\ pc' = "replay" /\ code[prev_index'].opname \in ConditionalBranches =>
              /\ _jump_expr' = last(lists[self_stack])
              /\ lists'[self_stack] = but_last(lists[self_stack])
       /\ pc = "replay" /\ pc' = "done" /\ last_opname \notin ConditionalBranches \cup {"FOR_ITER"} =>
              /\ block_expr'.jump_expr = None
              /\ lists'[block_expr'.on_true] = lists'[block_expr'.on_false]]_vars

\* a block that ends in JUMP_IF_FALSE_OR_POP has been processed on a stack that was not empty
ShortCircuitBlockProcessed ==
    /\ pc = "done" /\ block_expr # None
    /\ last_opname = "JUMP_IF_FALSE_OR_POP"
    /\ Len(code) > 2
    /\ lists[stack] # <<>>
    /\ Len(lists[block_expr.on_false]) > 1

(***************************************************************************)
(* node.py: the methods of AbstractNode that bind edges, called in any     *)
(* order on nodes that start without edges                                 *)
(***************************************************************************)
\* the number of AbstractNode objects
MaxNodes == 2

\* the most calls made on them
MaxNodeCalls == 3

\* get_origin_true: the origins whose true edge enters self, one item for each place in origins
get_origin_true(h, self) ==
    SelectSeq(h.n[self].origins, LAMBDA origin : h.n[origin].on_true = self)

get_origin_false(h, self) ==
    SelectSeq(h.n[self].origins, LAMBDA origin : h.n[origin].on_false = self)

RECURSIVE unbind_on_true(_, _, _), unbind_on_false(_, _, _)
\* for origin in origins: if origin in among: origin.set_on_true(None)
unbind_on_true(h, origins, among) ==
    IF origins = <<>> \/ h.err # "" THEN h
    ELSE unbind_on_true(IF Head(origins) \in among THEN set_on_true(h, Head(origins), 0) ELSE h,
                        Tail(origins), among)

unbind_on_false(h, origins, among) ==
    IF origins = <<>> \/ h.err # "" THEN h
    ELSE unbind_on_false(IF Head(origins) \in among THEN set_on_false(h, Head(origins), 0) ELSE h,
                         Tail(origins), among)

\* remove_origins(nodes), the argument None being every node
remove_origins(h, self, among) ==
    LET unbound == unbind_on_true(h, get_origin_true(h, self), among)
    IN  unbind_on_false(unbound, get_origin_false(unbound, self), among)

\* redirect_origins: for origin in self.origins: origin.redirect(self, target)
redirect_origins(h, self, target) == seize_origins_from(h, target, self, 1)

\* the nodes as a heap on which no call has failed
heap == [n |-> node, err |-> ""]

Ids == 1..Len(node)

node_set_on_true ==
    /\ pc = "nodes"
    /\ called < MaxNodeCalls
    /\ called' = called + 1
    /\ \E self \in Ids, target \in Ids \cup {0} : heap_step(set_on_true(heap, self, target), "nodes")
    /\ UNCHANGED <<instructions, nodes, cond_nodes, true_node, false_node, root, position,
                   conditional_expr>>
    /\ UNCHANGED <<builder_vars, cache_vars, pool_vars, ast_vars, block_vars, tx_vars, pending>>

node_set_on_false ==
    /\ pc = "nodes"
    /\ called < MaxNodeCalls
    /\ called' = called + 1
    /\ \E self \in Ids, target \in Ids \cup {0} : heap_step(set_on_false(heap, self, target), "nodes")
    /\ UNCHANGED <<instructions, nodes, cond_nodes, true_node, false_node, root, position,
                   conditional_expr>>
    /\ UNCHANGED <<builder_vars, cache_vars, pool_vars, ast_vars, block_vars, tx_vars, pending>>

node_set_target ==
    /\ pc = "nodes"
    /\ called < MaxNodeCalls
    /\ called' = called + 1
    /\ \E self \in Ids, t \in Ids \cup {0}, f \in Ids \cup {0} :
          heap_step(set_target(heap, self, t, f), "nodes")
    /\ UNCHANGED <<instructions, nodes, cond_nodes, true_node, false_node, root, position,
                   conditional_expr>>
    /\ UNCHANGED <<builder_vars, cache_vars, pool_vars, ast_vars, block_vars, tx_vars, pending>>

node_redirect ==
    /\ pc = "nodes"
    /\ called < MaxNodeCalls
    /\ called' = called + 1
    /\ \E self \in Ids, source \in Ids, target \in Ids :
          heap_step(redirect(heap, self, source, target), "nodes")
    /\ UNCHANGED <<instructions, nodes, cond_nodes, true_node, false_node, root, position,
                   conditional_expr>>
    /\ UNCHANGED <<builder_vars, cache_vars, pool_vars, ast_vars, block_vars, tx_vars, pending>>

node_remove_origins ==
    /\ pc = "nodes"
    /\ called < MaxNodeCalls
    /\ called' = called + 1
    /\ \E self \in Ids, among \in {Ids} \cup {{m} : m \in Ids} :
          heap_step(remove_origins(heap, self, among), "nodes")
    /\ UNCHANGED <<instructions, nodes, cond_nodes, true_node, false_node, root, position,
                   conditional_expr>>
    /\ UNCHANGED <<builder_vars, cache_vars, pool_vars, ast_vars, block_vars, tx_vars, pending>>

node_twist ==
    /\ pc = "nodes"
    /\ called < MaxNodeCalls
    /\ called' = called + 1
    /\ \E self \in Ids : heap_step(twist(heap, self), "nodes")
    /\ UNCHANGED <<instructions, nodes, cond_nodes, true_node, false_node, root, position,
                   conditional_expr>>
    /\ UNCHANGED <<builder_vars, cache_vars, pool_vars, ast_vars, block_vars, tx_vars, pending>>

InitNodes ==
    /\ pc = "nodes"
    /\ error = ""
    /\ instructions = <<>>
    /\ node = [i \in 1..MaxNodes |-> AbstractNode(None)]
    /\ nodes = <<>>
    /\ cond_nodes = <<>>
    /\ true_node = 0
    /\ false_node = 0
    /\ root = 0
    /\ position = 0
    /\ conditional_expr = None
    /\ no_query
    /\ no_cache
    /\ no_pool
    /\ no_ast
    /\ no_block
    /\ no_tx
    /\ no_call

NextNodes ==
    \/ node_set_on_true
    \/ node_set_on_false
    \/ node_set_target
    \/ node_redirect
    \/ node_remove_origins
    \/ node_twist

SpecNodes == InitNodes /\ [][NextNodes]_vars

\* how often x occurs in the sequence s
occurrences(s, x) == Cardinality({i \in 1..Len(s) : s[i] = x})

\* the number of edges from m into n
edges(m, n) ==
    (IF node[m].on_true = n THEN 1 ELSE 0) + (IF node[m].on_false = n THEN 1 ELSE 0)

\* C27: whatever calls of set_on_true, set_on_false, set_target, redirect, remove_origins and
\* twist have been made, no call has failed, and every node m occurs in the origins of every
\* node n once for each of its edges into n
OriginsAreIncomingEdges ==
    node # <<>> /\ instructions = <<>> =>
        /\ pc # "failed"
        /\ \A m \in Ids, n \in Ids : occurrences(node[n].origins, m) = edges(m, n)

\* a node has both edges of one node and an edge of another among its origins,
\* and a node has been twisted
OriginsHoldBothEdges ==
    /\ pc = "nodes"
    /\ \E m \in Ids, n \in Ids : m # n /\ edges(m, n) = 2 /\ edges(n, n) = 1 /\ node[m].inverted

(***************************************************************************)
(* node.py: seize_origins and redirect_origins, called once on a node with *)
(* any number of predecessors.  Object 1 is the node, 2 the target, 3 a    *)
(* node elsewhere, and the predecessors follow.                            *)
(***************************************************************************)
\* the most predecessors the node has
MaxOrigins == 3

\* the two edges of a predecessor: at least one enters the node, the other one may
\* enter the node elsewhere or be unbound
OriginEdges == {e \in {0, 1, 3} \X {0, 1, 3} : e[1] = 1 \/ e[2] = 1}

RECURSIVE origins_of(_, _, _, _)
\* the origins of the node n when the nodes from the k-th on have bound their edges in
\* order, each its true edge first; the k-th node is the object k + before
origins_of(edges_of, n, k, before) ==
    IF k > Len(edges_of) THEN <<>>
    ELSE (IF edges_of[k][1] = n THEN <<k + before>> ELSE <<>>)
         \o (IF edges_of[k][2] = n THEN <<k + before>> ELSE <<>>)
         \o origins_of(edges_of, n, k + 1, before)

\* the heap of the node, the target, the node elsewhere and the predecessors
predecessors(edges_of) ==
    <<[AbstractNode(None) EXCEPT !.origins = origins_of(edges_of, 1, 1, 3)],
      AbstractNode(None),
      [AbstractNode(None) EXCEPT !.origins = origins_of(edges_of, 3, 1, 3)]>>
    \o [k \in 1..Len(edges_of) |->
           [AbstractNode(None) EXCEPT !.on_true = edges_of[k][1], !.on_false = edges_of[k][2]]]

InitSeize ==
    /\ pc = "seize"
    /\ error = ""
    /\ instructions = <<>>
    /\ \E k \in 0..MaxOrigins : \E edges_of \in [1..k -> OriginEdges] : node = predecessors(edges_of)
    /\ nodes = <<>>
    /\ cond_nodes = <<>>
    /\ true_node = 0
    /\ false_node = 0
    /\ root = 0
    /\ position = 0
    /\ conditional_expr = None
    /\ called = 0
    /\ pending \in {[name |-> "seize_origins", self |-> 2, node |-> 1],
                     [name |-> "redirect_origins", self |-> 1, node |-> 2]}
    /\ no_query
    /\ no_cache
    /\ no_pool
    /\ no_ast
    /\ no_block
    /\ no_tx

\* target.seize_origins(node)
node_seize_origins ==
    /\ pc = "seize"
    /\ pending.name = "seize_origins"
    /\ heap_step(seize_origins(heap, pending.self, pending.node), "done")
    /\ called' = called + 1
    /\ UNCHANGED <<instructions, nodes, cond_nodes, true_node, false_node, root, position,
                   conditional_expr>>
    /\ UNCHANGED <<builder_vars, cache_vars, pool_vars, ast_vars, block_vars, tx_vars, pending>>

\* node.redirect_origins(target)
node_redirect_origins ==
    /\ pc = "seize"
    /\ pending.name = "redirect_origins"
    /\ heap_step(redirect_origins(heap, pending.self, pending.node), "done")
    /\ called' = called + 1
    /\ UNCHANGED <<instructions, nodes, cond_nodes, true_node, false_node, root, position,
                   conditional_expr>>
    /\ UNCHANGED <<builder_vars, cache_vars, pool_vars, ast_vars, block_vars, tx_vars, pending>>

NextSeize ==
    \/ node_seize_origins
    \/ node_redirect_origins

SpecSeize == InitSeize /\ [][NextSeize]_vars

\* where an edge points after every edge into `from` has been moved to `to`
moved(edge, from, to) == IF edge = from THEN to ELSE edge

\* C28: target.seize_origins(node) and node.redirect_origins(target) return with every edge
\* that entered node entering target, node being left without incoming edges, and every
\* other edge as it was
OriginsSeized ==
    [][pc = "seize" =>
          /\ pc' = "done"
          /\ node'[1].origins = <<>>
          /\ \A m \in Ids :
                /\ node'[m].on_true = moved(node[m].on_true, 1, 2)
                /\ node'[m].on_false = moved(node[m].on_false, 1, 2)]_vars

(***************************************************************************)
(* node.py: topological_sort, called once on a node of an acyclic graph    *)
(***************************************************************************)
\* the number of nodes of the graph
MaxSorted == 4

RECURSIVE edges_from(_)
\* the edges of the nodes from m on: every edge is unbound or leads to a node of a higher
\* number, which makes the graph acyclic
edges_from(m) ==
    IF m > MaxSorted THEN {<<>>}
    ELSE {<<e>> \o rest : e \in ({0} \cup (m + 1)..MaxSorted) \X ({0} \cup (m + 1)..MaxSorted),
                          rest \in edges_from(m + 1)}

\* the graph of the given edges
acyclic(targets) ==
    [m \in 1..MaxSorted |->
        [AbstractNode(None) EXCEPT
            !.on_true = targets[m][1],
            !.on_false = targets[m][2],
            !.origins = origins_of(targets, m, 1, 0)]]

InitSort ==
    /\ pc = "sort_nodes"
    /\ error = ""
    /\ instructions = <<>>
    /\ \E targets \in edges_from(1) : node = acyclic(targets)
    /\ nodes = <<>>
    /\ cond_nodes = <<>>
    /\ true_node = 0
    /\ false_node = 0
    /\ root \in 1..MaxSorted
    /\ position = 0
    /\ conditional_expr = None
    /\ no_query
    /\ no_cache
    /\ no_pool
    /\ no_ast
    /\ no_block
    /\ no_tx
    /\ no_call

\* nodes = root.topological_sort()
node_topological_sort ==
    /\ pc = "sort_nodes"
    /\ nodes' = topological_sort(heap, root)
    /\ pc' = "done"
    /\ UNCHANGED <<instructions, node, cond_nodes, true_node, false_node, root, position,
                   conditional_expr, error>>
    /\ UNCHANGED <<builder_vars, cache_vars, pool_vars, ast_vars, block_vars, tx_vars, call_vars>>

SpecSort == InitSort /\ [][node_topological_sort]_vars

\* the nodes an edge of a node of S enters
successors(S) == ({node[m].on_true : m \in S} \cup {node[m].on_false : m \in S}) \ {0}

RECURSIVE reachable(_)
\* the nodes that paths from the nodes of S reach
reachable(S) == IF successors(S) \subseteq S THEN S ELSE reachable(S \cup successors(S))

\* the place of the node m in the list
place(m) == CHOOSE i \in 1..Len(nodes) : nodes[i] = m

\* C29: the list topological_sort returns for an acyclic graph begins with the entry node,
\* holds every node reachable from it once and no other node, and has every node
\* before the nodes its edges enter
SortIsTopological ==
    pc = "done" /\ root # 0 /\ instructions = <<>> =>
        /\ nodes # <<>> /\ nodes[1] = root
        /\ {nodes[i] : i \in 1..Len(nodes)} = reachable({root})
        /\ Len(nodes) = Cardinality(reachable({root}))
        /\ \A m \in reachable({root}) : \A n \in successors({m}) : place(m) < place(n)

\* a graph is sorted in which two edges from different nodes enter the last node
\* and the entry node reaches every node
DiamondSorted ==
    /\ pc = "done" /\ root # 0 /\ instructions = <<>>
    /\ Len(nodes) = Len(node)
    /\ \E m \in Ids : Cardinality({node[m].origins[i] : i \in 1..Len(node[m].origins)}) > 1

(***************************************************************************)
(* async_database.py: DatabasePool.connection and                          *)
(* DatabaseConnection.transaction, in                                      *)
(*     async with pool.connection() as c:                                  *)
(*         async with c.transaction():                                     *)
(*             body                                                        *)
(* `failing` is the set of asyncpg calls that raise in the run.            *)
(***************************************************************************)
\* the most connections the asyncpg pool holds
MaxConnections == 2

\* what the body does: it completes, it raises an Exception, or it is cancelled
\* (asyncio.CancelledError is a BaseException)
Bodies == {"returns", "ValueError", "CancelledError"}

\* try/except/else with `except Exception:` in the place of the bare `except:`
transaction_exit_except_Exception(outcome) ==
    IF outcome = "returns" THEN "commit"
    ELSE IF outcome = "CancelledError" THEN "release"
    ELSE "rollback"

\* try: yield ... except: rollback; raise  else: commit -- where the body's outcome leads
transaction_exit(outcome) == IF outcome = "returns" THEN "commit" ELSE "rollback"

\* conn = await self.pool.acquire()
connection_acquire ==
    /\ pc = "acquire"
    /\ \E c \in free : conn' = c /\ free' = free \ {c}
    /\ calls' = Append(calls, "acquire")
    /\ pc' = "start"
    /\ UNCHANGED <<body, exc, error, failing>>
    /\ UNCHANGED <<builder_vars, graph_vars, cache_vars, pool_vars, ast_vars, block_vars, call_vars>>

\* transaction = self.conn.transaction(); await transaction.start()
transaction_start ==
    /\ pc = "start"
    /\ calls' = Append(calls, "start")
    /\ IF "start" \in failing
       THEN exc' = "start failed" /\ pc' = "release"
       ELSE exc' = exc /\ pc' = "body"
    /\ UNCHANGED <<free, conn, body, error, failing>>
    /\ UNCHANGED <<builder_vars, graph_vars, cache_vars, pool_vars, ast_vars, block_vars, call_vars>>

\* the body of the inner `async with` block runs to its end or raises
transaction_body ==
    /\ pc = "body"
    /\ exc' = IF body = "returns" THEN "" ELSE body
    /\ pc' = transaction_exit(body)
    /\ UNCHANGED <<free, conn, calls, body, error, failing>>
    /\ UNCHANGED <<builder_vars, graph_vars, cache_vars, pool_vars, ast_vars, block_vars, call_vars>>

\* else: await transaction.commit()
transaction_commit ==
    /\ pc = "commit"
    /\ calls' = Append(calls, "commit")
    /\ exc' = IF "commit" \in failing THEN "commit failed" ELSE exc
    /\ pc' = "release"
    /\ UNCHANGED <<free, conn, body, error, failing>>
    /\ UNCHANGED <<builder_vars, graph_vars, cache_vars, pool_vars, ast_vars, block_vars, call_vars>>

\* except: await transaction.rollback(); raise
transaction_rollback ==
    /\ pc = "rollback"
    /\ calls' = Append(calls, "rollback")
    /\ exc' = IF "rollback" \in failing THEN "rollback failed" ELSE exc
    /\ pc' = "release"
    /\ UNCHANGED <<free, conn, body, error, failing>>
    /\ UNCHANGED <<builder_vars, graph_vars, cache_vars, pool_vars, ast_vars, block_vars, call_vars>>

\* finally: await self.pool.release(conn); what was raised travels on
connection_release ==
    /\ pc = "release"
    /\ calls' = Append(calls, "release")
    /\ free' = free \cup {conn}
    /\ conn' = 0
    /\ error' = exc
    /\ pc' = IF exc = "" THEN "done" ELSE "failed"
    /\ UNCHANGED <<body, exc, failing>>
    /\ UNCHANGED <<builder_vars, graph_vars, cache_vars, pool_vars, ast_vars, block_vars, call_vars>>

InitTransaction ==
    /\ pc = "acquire"
    /\ error = ""
    /\ \E k \in 1..MaxConnections : free = 1..k
    /\ conn = 0
    /\ calls = <<>>
    /\ body \in Bodies
    /\ failing \in SUBSET {"start", "commit", "rollback"}
    /\ exc = ""
    /\ no_query
    /\ no_graph
    /\ no_cache
    /\ no_pool
    /\ no_ast
    /\ no_block
    /\ no_call

NextTransaction ==
    \/ connection_acquire
    \/ transaction_start
    \/ transaction_body
    \/ transaction_commit
    \/ transaction_rollback
    \/ connection_release

SpecTransaction == InitTransaction /\ [][NextTransaction]_vars

\* the block has been left, by its end or by an exception
left == pc \in {"done", "failed"} /\ calls # <<>>

====
